---- MODULE Spec2Model ----
(***************************************************************************)
(* A model of the LWC preview server bootstrap of lwc-dev-mobile:          *)
(*   - LwrServerUtils.getNextAvailablePort (port probing loop),            *)
(*   - LwrServerUtils.getMergedLwrConfig   (effective configuration),      *)
(*   - LwrServerUtils.startLwrServer / setShutDownTimer (server lifecycle  *)
(*     and the idle timer).                                                *)
(*                                                                         *)
(* Strings are modelled as sequences of tokens: a path string is the       *)
(* sequence of its segments and separators (<<"/", "proj", "/", "lwc">>),  *)
(* a decimal number string is the sequence of its digits.  The empty       *)
(* string is <<>>.  An optional JSON field is <<>> when absent and <<v>>   *)
(* when present.  The model is of the POSIX build (path.sep = "/").        *)
(***************************************************************************)
EXTENDS Integers, Sequences, FiniteSets, TLC

VARIABLES
    \* ---- inputs of getMergedLwrConfig / startLwrServer
    componentName,          \* string: the component reference
    projectDir,             \* string: the project directory
    cwd,                    \* string: process.cwd(), an absolute path
    fileResult,             \* outcome of CommonUtils.loadJsonFromFile
    probes,                 \* answers of the port probe command, in call order
    dateNow,                \* value of Date.now() during the call
    serverTimeoutMinutes,   \* idle timeout argument of startLwrServer
    \* ---- results of the pure functions
    lwrConfig,              \* <<>> or <<config>>: result of getMergedLwrConfig
    portResult,             \* <<>> or <<r>>: result of getNextAvailablePort
    \* ---- server lifecycle (startLwrServer)
    pc,                     \* position inside startLwrServer
    promise,                \* state of the promise startLwrServer returns
    listenFailed,           \* lwrApp.listen has reported a failure
    calls,                  \* how often each collaborator was invoked
    hookInstalled,          \* expressServer.on('request', ...) has run
    timer,                  \* the closure variable `timer`: last handle, 0 = none
    pending,                \* scheduled, not yet fired or cleared timeouts
    nextTimerId,            \* handle the next setTimeout returns
    now,                    \* event loop time, in milliseconds
    lastActivity,           \* time of bind or of the last request
    callbacks,              \* the runs of the idle timer callback
    exited,                 \* process.exit has been called
    exitStatus,             \* the status process.exit was called with
    errorLog,               \* number of console.error lines written
    \* ---- a repeated call of getMergedLwrConfig
    secondConfig,           \* <<>> or <<[ts, config]>>: result of a second call
    \* ---- the module resolvers
    manifest,               \* state of sfdx-project.json in the project directory
    componentGlob,          \* what fastGlob.sync answers to the component scan
    labelGlob,              \* what fastGlob.sync answers to the label scan
    disk,                   \* the other files of the project, in directory order
    resourceGlobThrows,     \* fastGlob.sync throws in getFileExtension
    baseAnswer,             \* what the wrapped LwcModuleProvider answers
    moduleMap,              \* <<>> or <<r>>: CustomLwcModuleProvider.moduleMap
    customLabelsMap,        \* <<>> or <<r>>: SalesforceLabelProvider.customLabelsMap
    request,                \* the last call made to a resolver
    response,               \* what that call answered
    \* ---- the preview command (Preview.run)
    flagValues,             \* the command line flags
    configOnDisk,           \* the preview config file as the command finds it
    ppc,                    \* position inside Preview.run
    runPromise,             \* state of the promise Preview.run returns
    appConfig,              \* this.appConfig: <<>> or <<config>>
    setup,                  \* outcome of RequirementProcessor.execute
    serverCall,             \* the call of LwrServerUtils.startLwrServer, its promise
    launches,               \* the launcher invocations, in order
    \* ---- startLwrServer, the variant that passes its results on in process.env
    previewLogger,          \* the exported slot previewLogger: <<>> or <<logger>>
    processEnv,             \* process.env: name -> <<>> or <<string>>
    serverIdleTimeoutMinutes, \* the optional argument: <<>> when omitted
    epc,                    \* the next statement of startLwrServer
    appStarted,             \* doStartLwrApp has been invoked
    \* ---- BaseSetup.executeSetup
    requirements,           \* this.requirements: title and what the check does
    wrapped,                \* the promise WrappedPromise returned for each
    settled,                \* the requirements whose check has settled, in order
    setupPromise            \* state of the promise executeSetup returns

cfgVars == <<componentName, projectDir, cwd, fileResult, probes, dateNow,
             serverTimeoutMinutes, lwrConfig, portResult>>
srvVars == <<pc, promise, listenFailed, calls, hookInstalled, timer, pending, nextTimerId,
             now, lastActivity, callbacks, exited, exitStatus, errorLog>>
againVars == <<secondConfig>>
projVars == <<manifest, componentGlob, labelGlob, disk, resourceGlobThrows, baseAnswer>>
resVars == <<projVars, moduleMap, customLabelsMap, request, response>>
prevVars == <<flagValues, configOnDisk, ppc, runPromise, appConfig, setup, serverCall, launches>>
envVars == <<previewLogger, processEnv, serverIdleTimeoutMinutes, epc, appStarted>>
reqVars == <<requirements, wrapped, settled, setupPromise>>
extVars == <<againVars, resVars, prevVars, envVars, reqVars>>
vars == <<cfgVars, srvVars, extVars>>

----------------------------------------------------------------------------
(* Bounds of the model *)

MaxProbes == 3          \* longest sequence of probe answers
MaxUserEntries == 2     \* longest user-declared modules / providers / routes list
MaxCompDepth == 3       \* most segments in a component reference
MaxProjDepth == 2       \* most segments in a project directory
MaxTimeoutMinutes == 2  \* largest idle timeout, in minutes
MaxTimers == 4          \* most timeouts armed in one run
MaxTime == 4            \* minutes the clock is followed with no timeout scheduled
MaxGlobbed == 2         \* most files a scan or a directory listing returns
MaxLabelFiles == 3      \* most label files of a project
MaxRequirements == 3    \* most requirements of a setup

----------------------------------------------------------------------------
(* Generic helpers on sequences (strings) *)

None == <<>>
Some(v) == <<v>>

RECURSIVE SeqsUpTo(_, _)
SeqsUpTo(S, n) ==
    IF n = 0 THEN {<<>>}
    ELSE LET shorter == SeqsUpTo(S, n - 1)
         IN  shorter \cup {Append(s, x) : s \in {t \in shorter : Len(t) = n - 1}, x \in S}

IsPrefixAt(s, pat, i) ==
    /\ i + Len(pat) - 1 <= Len(s)
    /\ \A j \in 1..Len(pat) : s[i + j - 1] = pat[j]

\* String.prototype.replace(pattern: string, replacement): first occurrence only
ReplaceFirst(s, pat, rep) ==
    LET hits == {i \in 1..Len(s) : IsPrefixAt(s, pat, i)}
    IN  IF pat = <<>> THEN rep \o s
        ELSE IF hits = {} THEN s
        ELSE LET i == CHOOSE h \in hits : \A g \in hits : h <= g
             IN  SubSeq(s, 1, i - 1) \o rep \o SubSeq(s, i + Len(pat), Len(s))

\* String.prototype.replace(/c/gi, r): every occurrence of one character
ReplaceAllTok(s, c, r) == [i \in 1..Len(s) |-> IF s[i] = c THEN r ELSE s[i]]

Digit(d) == CASE d = 0 -> "0" [] d = 1 -> "1" [] d = 2 -> "2" [] d = 3 -> "3"
              [] d = 4 -> "4" [] d = 5 -> "5" [] d = 6 -> "6" [] d = 7 -> "7"
              [] d = 8 -> "8" [] d = 9 -> "9"

\* `${n}` for a non-negative integer: its decimal digits
RECURSIVE NumToStr(_)
NumToStr(n) == IF n < 10 THEN <<Digit(n)>> ELSE Append(NumToStr(n \div 10), Digit(n % 10))

----------------------------------------------------------------------------
(* The path module (POSIX) *)

sep == "/"

Segments(s) == SelectSeq(s, LAMBDA t : t # sep)

IsAbsolute(s) == Len(s) > 0 /\ s[1] = sep

\* "." is dropped, ".." removes the segment before it and is dropped at the root
RECURSIVE NormalizeFrom(_, _)
NormalizeFrom(stack, segs) ==
    IF segs = <<>> THEN stack
    ELSE LET h == Head(segs)
         IN  IF h = "." THEN NormalizeFrom(stack, Tail(segs))
             ELSE IF h = ".."
                  THEN NormalizeFrom(IF stack = <<>> THEN stack
                                     ELSE SubSeq(stack, 1, Len(stack) - 1), Tail(segs))
                  ELSE NormalizeFrom(Append(stack, h), Tail(segs))

RECURSIVE PathStr(_)
PathStr(segs) ==
    IF segs = <<>> THEN <<sep>>
    ELSE IF Len(segs) = 1 THEN <<sep, segs[1]>>
    ELSE PathStr(SubSeq(segs, 1, Len(segs) - 1)) \o <<sep, segs[Len(segs)]>>

\* path.resolve(path.join(a, b)) with process.cwd() = c
ResolveJoin(c, a, b) ==
    LET joined == IF a = <<>> THEN b ELSE a \o <<sep>> \o b   \* join skips ""
        base == IF IsAbsolute(joined) THEN <<>> ELSE Segments(c)
    IN  PathStr(NormalizeFrom(<<>>, base \o Segments(joined)))

\* path.resolve(p) with process.cwd() = c
Resolve(c, p) ==
    PathStr(NormalizeFrom(<<>>, (IF IsAbsolute(p) THEN <<>> ELSE Segments(c)) \o Segments(p)))

----------------------------------------------------------------------------
(* LwrServerUtils.getNextAvailablePort *)

DEFAULT_SERVER_PORT == 3000

\* What one run of the probe command tells: non-blank output, blank output,
\* or the command raised
ProbeAnswers == {"inuse", "blank", "raised"}

\* a slip: the next candidate is port + 1
ProbeIterationStepOne(port, answer) ==
    IF answer = "raised" THEN <<port, TRUE>>
    ELSE IF answer = "inuse" THEN <<port + 1, FALSE>>
    ELSE <<port, TRUE>>

\* a slip: a port in use is probed again
ProbeIterationSamePort(port, answer) ==
    IF answer = "raised" THEN <<port, TRUE>>
    ELSE IF answer = "inuse" THEN <<port, FALSE>>
    ELSE <<port, TRUE>>

\* The body of one iteration of the while loop: the next value of <<port, done>>
ProbeIteration(port, answer) ==
    IF answer = "raised" THEN <<port, TRUE>>            \* catch: done = true
    ELSE IF answer = "inuse" THEN <<port + 2, FALSE>>   \* result.trim() is non-empty
    ELSE <<port, TRUE>>                                 \* blank output

\* The while loop, run against the answers in call order.  `returned` is FALSE
\* when the answers run out with the loop still going (it has not terminated).
RECURSIVE ProbeLoop(_, _, _)
ProbeLoop(answers, i, port) ==
    IF i > Len(answers) THEN [returned |-> FALSE, port |-> port, probed |-> i - 1]
    ELSE LET step == ProbeIteration(port, answers[i])
         IN  IF step[2] THEN [returned |-> TRUE, port |-> step[1], probed |-> i]
             ELSE ProbeLoop(answers, i + 1, step[1])

getNextAvailablePort(answers) == ProbeLoop(answers, 1, DEFAULT_SERVER_PORT)

\* The ports the probe command is run on, one per iteration, in order
RECURSIVE ProbeTrace(_, _, _)
ProbeTrace(answers, i, port) ==
    IF i > Len(answers) THEN <<>>
    ELSE LET step == ProbeIteration(port, answers[i])
         IN  <<port>> \o (IF step[2] THEN <<>> ELSE ProbeTrace(answers, i + 1, step[1]))

ProbedPorts(answers) == ProbeTrace(answers, 1, DEFAULT_SERVER_PORT)

----------------------------------------------------------------------------
(* LwrServerUtils.getMergedLwrConfig *)

\* getModifiedModuleProviders: the runtime's default providers with the
\* custom provider put first
LwrDefaultModuleProviders == <<"lwr-module-provider-a", "lwr-module-provider-b">>

getModifiedModuleProviders == <<"CustomLwcModuleProvider.js">> \o LwrDefaultModuleProviders

rootDirectory(c, pDir) == Resolve(c, pDir)

componentFullPath(c, pDir, cName) == ResolveJoin(c, pDir, cName)

twoLevelUp(c, pDir, cName) ==
    ResolveJoin(c, componentFullPath(c, pDir, cName), <<"..", sep, "..", sep>>)

rootComp(c, pDir, cName) ==
    ReplaceAllTok(
        ReplaceFirst(componentFullPath(c, pDir, cName),
                     twoLevelUp(c, pDir, cName) \o <<sep>>, <<>>),
        "\\", "/")

lwcModuleRecord(c, pDir, cName) == [dir |-> twoLevelUp(c, pDir, cName)]

\* a slip: the timestamp also ends up in the root component
defaultLwrRouteStampedComponent(c, pDir, cName, ts) ==
    [id            |-> ReplaceAllTok(rootComp(c, pDir, cName), "/", "-")
                       \o <<"-">> \o NumToStr(ts),
     path          |-> <<"/">>,
     rootComponent |-> rootComp(c, pDir, cName) \o <<"-">> \o NumToStr(ts)]

defaultLwrRoute(c, pDir, cName, ts) ==
    [id            |-> ReplaceAllTok(rootComp(c, pDir, cName), "/", "-")
                       \o <<"-">> \o NumToStr(ts),
     path          |-> <<"/">>,
     rootComponent |-> rootComp(c, pDir, cName)]

EmptyConfig ==
    [serverMode |-> None, port |-> None, rootDir |-> None, cacheDir |-> None,
     lwc |-> None, moduleProviders |-> None, routes |-> None]

\* a slip: a failed load leaves a production configuration behind
LoadedConfigFailureAsProd(file) ==
    IF file = None THEN [EmptyConfig EXCEPT !.serverMode = Some(<<"prod">>)] ELSE file[1]

\* try { config = loadJsonFromFile(...) } catch { /* ignore */ }
LoadedConfig(file) == IF file = None THEN EmptyConfig ELSE file[1]

\* JavaScript truthiness of an optional string / number field
TruthyStr(f) == f # None /\ f[1] # <<>>
TruthyNum(f) == f # None /\ f[1] # 0

\* a slip: the mode is overwritten whatever the user declared
MergedServerModeForced(config) == Some(<<"dev">>)

MergedServerMode(config) ==
    IF ~TruthyStr(config.serverMode) THEN Some(<<"dev">>) ELSE config.serverMode

MergedPort(config, answers) ==
    IF ~TruthyNum(config.port) THEN Some(getNextAvailablePort(answers).port)
    ELSE config.port

MergedRootDir(config, c, pDir) ==
    IF ~TruthyStr(config.rootDir) THEN Some(rootDirectory(c, pDir)) ELSE config.rootDir

MergedLwc(config, record) ==
    IF config.lwc = None THEN Some([modules |-> Some(<<record>>)])
    ELSE IF config.lwc[1].modules = None THEN Some([modules |-> Some(<<record>>)])
    ELSE Some([modules |-> Some(<<record>> \o config.lwc[1].modules[1])])

MergedModuleProviders(config) ==
    IF config.moduleProviders = None THEN Some(getModifiedModuleProviders)
    ELSE Some(getModifiedModuleProviders \o config.moduleProviders[1])

\* a slip: push instead of unshift
MergedRoutesAppended(config, route) ==
    IF config.routes = None THEN Some(<<route>>)
    ELSE Some(Append(config.routes[1], route))

MergedRoutes(config, route) ==
    IF config.routes = None THEN Some(<<route>>)
    ELSE Some(<<route>> \o config.routes[1])

\* getMergedLwrConfig returns unless it has to search a port and the search
\* does not terminate
MergeReturns(file, answers) ==
    TruthyNum(LoadedConfig(file).port) \/ getNextAvailablePort(answers).returned

getMergedLwrConfig(c, pDir, cName, file, answers, ts) ==
    LET config == LoadedConfig(file)
    IN  [serverMode      |-> MergedServerMode(config),
         port            |-> MergedPort(config, answers),
         rootDir         |-> MergedRootDir(config, c, pDir),
         cacheDir        |-> config.cacheDir,
         lwc             |-> MergedLwc(config, lwcModuleRecord(c, pDir, cName)),
         moduleProviders |-> MergedModuleProviders(config),
         routes          |-> MergedRoutes(config, defaultLwrRoute(c, pDir, cName, ts))]

----------------------------------------------------------------------------
(* The inputs the functions are run on *)

RECURSIVE RelStr(_)
RelStr(segs) ==
    IF Len(segs) <= 1 THEN segs
    ELSE RelStr(SubSeq(segs, 1, Len(segs) - 1)) \o <<sep, segs[Len(segs)]>>

DirNames == {"proj", "ws"}
CompSegNames == {"app", "lwc", "hello", ".."}

\* absolute and relative project directories, the root directory among them
ProjectDirs ==
    {PathStr(d) : d \in SeqsUpTo(DirNames, MaxProjDepth)}
    \cup {RelStr(d) : d \in SeqsUpTo(DirNames, MaxProjDepth) \ {<<>>}}

\* component references, with and without a leading separator
ComponentNames ==
    LET rel == {RelStr(d) : d \in SeqsUpTo(CompSegNames, MaxCompDepth) \ {<<>>}}
    IN  rel \cup {<<sep>> \o r : r \in rel}

Cwds == {<<sep>>, <<sep, "home">>}

Timestamps == {7, 1024}

UserModules == {[dir |-> <<"$rootDir", sep, "src">>], [dir |-> <<sep, "shared">>]}
UserProviders == {"@company/my-module-provider", "@company/other-provider"}
UserRoutes ==
    {[id |-> <<"example">>, path |-> <<sep, "my", sep, "path">>,
      rootComponent |-> <<"example", sep, "app">>],
     [id |-> <<"second">>, path |-> <<sep, "second">>,
      rootComponent |-> <<"lwc", sep, "hello">>]}

OptOf(S) == {None} \cup {Some(v) : v \in S}

ServerModes == OptOf({<<>>, <<"dev">>, <<"prod">>})
Ports == OptOf({0, 3456})
RootDirs == OptOf({<<>>, <<sep, "custom">>})
CacheDirs == OptOf({<<sep, "cachedir">>})
Lwcs == OptOf({[modules |-> m] : m \in OptOf(SeqsUpTo(UserModules, MaxUserEntries))})
ModuleProviderLists == OptOf(SeqsUpTo(UserProviders, MaxUserEntries))
RouteLists == OptOf(SeqsUpTo(UserRoutes, MaxUserEntries))

FullConfig ==
    [serverMode |-> Some(<<"prod">>), port |-> Some(3456),
     rootDir |-> Some(<<sep, "custom">>), cacheDir |-> Some(<<sep, "cachedir">>),
     lwc |-> None, moduleProviders |-> None, routes |-> None]

\* user configurations that vary the scalar fields
ScalarConfigs ==
    {[EmptyConfig EXCEPT !.serverMode = m, !.port = p, !.rootDir = r, !.cacheDir = c] :
        m \in ServerModes, p \in Ports, r \in RootDirs, c \in CacheDirs}

\* user configurations that vary the list fields
ListConfigs ==
    {[base EXCEPT !.lwc = l, !.moduleProviders = mp, !.routes = rt] :
        base \in {EmptyConfig, FullConfig},
        l \in Lwcs, mp \in ModuleProviderLists, rt \in RouteLists}

ProbeRuns == SeqsUpTo(ProbeAnswers, MaxProbes)

TypicalProject == <<sep, "proj">>
TypicalComponent == <<"app", sep, "lwc", sep, "hello">>

----------------------------------------------------------------------------
(* The state before startLwrServer is called *)

ServerInit ==
    /\ pc = "start"
    /\ promise = [state |-> "pending", value |-> <<>>]
    /\ listenFailed = FALSE
    /\ calls = [getMergedLwrConfig |-> 0, createServer |-> 0, listen |-> 0, close |-> 0]
    /\ hookInstalled = FALSE
    /\ timer = 0
    /\ pending = {}
    /\ nextTimerId = 1
    /\ now = 0
    /\ lastActivity = 0
    /\ callbacks = <<>>
    /\ exited = FALSE
    /\ exitStatus = 0
    /\ errorLog = 0

ResultsInit == lwrConfig = None /\ portResult = None

AgainIdle == secondConfig = None

NoRequest == [resolver |-> "none", op |-> "none", specifier |-> <<>>]

\* no provider constructed, no resolver called
ProvidersInit ==
    /\ moduleMap = None /\ customLabelsMap = None
    /\ request = NoRequest /\ response = [kind |-> "undefined"]

\* an empty project, left alone
ResIdle ==
    /\ manifest = "missing"
    /\ componentGlob = [throws |-> FALSE, files |-> <<>>]
    /\ labelGlob = [throws |-> FALSE, files |-> <<>>]
    /\ disk = <<>>
    /\ resourceGlobThrows = FALSE
    /\ baseAnswer = [kind |-> "undefined"]
    /\ ProvidersInit

\* Preview.run has not been called
PreviewNotRun ==
    /\ ppc = "start"
    /\ runPromise = [state |-> "pending", error |-> "none"]
    /\ appConfig = None
    /\ setup = "notRun"
    /\ serverCall = [state |-> "none", port |-> <<>>]
    /\ launches = <<>>

\* the command as the tests construct it: a component on Android, in the browser
PrevIdle ==
    /\ flagValues = [platform |-> <<"android">>, target |-> <<"sfdxdebug">>,
                     componentname |-> <<"compname">>, configfile |-> <<>>,
                     targetapp |-> <<"browser">>, confighelp |-> FALSE]
    /\ configOnDisk = [exists |-> FALSE, schemaPassed |-> FALSE, hasAppConfig |-> FALSE]
    /\ PreviewNotRun

EnvNames ==
    {"ROOT_DIR", "MODULES_DIR", "ROOT_COMPONENT", "SERVICE_WORKER", "BEHIND_PROXY", "MODE",
     "SERVER_IDLE_TIMEOUT_MINUTES", "SERVER_PORT"}

\* startLwrServer (environment variant) has not been called
EnvNotRun ==
    /\ previewLogger = None
    /\ processEnv = [n \in EnvNames |-> None]
    /\ epc = "previewLogger"
    /\ appStarted = FALSE

EnvIdle == EnvNotRun /\ serverIdleTimeoutMinutes = None

\* executeSetup has not been called
SetupNotRun ==
    /\ wrapped = [i \in 1..Len(requirements) |-> [promise |-> "notCalled", status |-> "none"]]
    /\ settled = <<>>
    /\ setupPromise = [state |-> "none", value |-> <<>>]

ReqIdle == requirements = <<>> /\ SetupNotRun

\* nothing outside the function or run under study has happened
ExtIdle == AgainIdle /\ ResIdle /\ PrevIdle /\ EnvIdle /\ ReqIdle

\* every project directory and component reference, no config file
InitPathSweep ==
    /\ projectDir \in ProjectDirs
    /\ componentName \in ComponentNames
    /\ cwd \in Cwds
    /\ dateNow \in Timestamps
    /\ fileResult = None
    /\ probes = <<"blank">>

\* every combination of scalar fields against every run of probe answers
InitScalarSweep ==
    /\ projectDir = TypicalProject
    /\ componentName = TypicalComponent
    /\ cwd = <<sep, "home">>
    /\ dateNow = 7
    /\ fileResult \in {Some(u) : u \in ScalarConfigs}
    /\ probes \in ProbeRuns

\* every combination of user-declared lists
InitListSweep ==
    /\ projectDir = TypicalProject
    /\ componentName = TypicalComponent
    /\ cwd = <<sep, "home">>
    /\ dateNow = 7
    /\ fileResult \in {Some(u) : u \in ListConfigs}
    /\ probes \in {<<"blank">>, <<"inuse", "raised">>}

InitConfig ==
    /\ InitPathSweep \/ InitScalarSweep \/ InitListSweep
    /\ serverTimeoutMinutes = 1
    /\ ResultsInit
    /\ ServerInit
    /\ ExtIdle

\* a direct call of getNextAvailablePort; it returns only if the loop ends
CallGetNextAvailablePort ==
    /\ portResult = None
    /\ getNextAvailablePort(probes).returned
    /\ portResult' = Some(getNextAvailablePort(probes))
    /\ UNCHANGED <<extVars, componentName, projectDir, cwd, fileResult, probes, dateNow,
                   serverTimeoutMinutes, lwrConfig, srvVars>>

\* a direct call of getMergedLwrConfig
CallGetMergedLwrConfig ==
    /\ lwrConfig = None
    /\ MergeReturns(fileResult, probes)
    /\ lwrConfig' = Some(getMergedLwrConfig(cwd, projectDir, componentName,
                                            fileResult, probes, dateNow))
    /\ UNCHANGED <<extVars, componentName, projectDir, cwd, fileResult, probes, dateNow,
                   serverTimeoutMinutes, portResult, srvVars>>

\* a second call of getMergedLwrConfig with the same arguments, in a project
\* without a config file; Date.now() has not gone backwards since the first
CallGetMergedLwrConfigAgain ==
    /\ lwrConfig # None /\ secondConfig = None
    /\ fileResult = None
    /\ \E ts \in Timestamps :
        /\ ts >= dateNow
        /\ secondConfig' = Some([ts |-> ts,
                                 config |-> getMergedLwrConfig(cwd, projectDir, componentName,
                                                               fileResult, probes, ts)])
    /\ UNCHANGED <<cfgVars, srvVars, resVars, prevVars, envVars, reqVars>>

NextConfig == CallGetNextAvailablePort \/ CallGetMergedLwrConfig

SpecConfig == InitConfig /\ [][NextConfig]_vars

\* two calls in a row: every project directory and component reference, no
\* config file, the first call at either timestamp
InitAgain ==
    /\ projectDir \in ProjectDirs
    /\ componentName \in ComponentNames
    /\ cwd = <<sep, "home">>
    /\ dateNow \in Timestamps
    /\ fileResult = None
    /\ probes = <<"blank">>
    /\ serverTimeoutMinutes = 1
    /\ ResultsInit
    /\ ServerInit
    /\ ExtIdle

NextAgain == CallGetMergedLwrConfig \/ CallGetMergedLwrConfigAgain

SpecAgain == InitAgain /\ [][NextAgain]_vars

----------------------------------------------------------------------------
(* LwrServerUtils.startLwrServer and setShutDownTimer *)

MsPerMinute == 60 * 1000

\* the delay handed to setTimeout: timeoutMinutes * 60 * 1000
TimeoutDelay(timeoutMinutes) == timeoutMinutes * 60 * 1000

\* runtimeConfig.port: the port of the configuration the server was created with
RuntimePort == lwrConfig[1].port[1]

\* setShutDownTimer: schedule the callback; the handle returned is nextTimerId
setShutDownTimer(scheduled) ==
    scheduled \cup {[id |-> nextTimerId, due |-> now + TimeoutDelay(serverTimeoutMinutes)]}

\* a slip: the previous timeout is not cancelled
clearTimeoutForgotten(scheduled, handle) == scheduled

\* clearTimeout(handle): no effect on a timeout that has fired or was cleared
clearTimeout(scheduled, handle) == {t \in scheduled : t.id # handle}

\* the inputs of a run of startLwrServer
Init ==
    /\ projectDir = TypicalProject
    /\ componentName = TypicalComponent
    /\ cwd = <<sep, "home">>
    /\ dateNow = 7
    /\ fileResult \in {None, Some([EmptyConfig EXCEPT !.port = Some(3456)])}
    /\ probes \in {<<"blank">>, <<"inuse", "raised">>}
    /\ serverTimeoutMinutes \in 1..MaxTimeoutMinutes
    /\ ResultsInit
    /\ ServerInit
    /\ ExtIdle

\* line 21: const lwrConfig = getMergedLwrConfig(componentName, projectDir)
BuildConfig ==
    /\ pc = "start" /\ ~exited
    /\ MergeReturns(fileResult, probes)
    /\ lwrConfig' = Some(getMergedLwrConfig(cwd, projectDir, componentName,
                                            fileResult, probes, dateNow))
    /\ calls' = [calls EXCEPT !.getMergedLwrConfig = @ + 1]
    /\ pc' = "configured"
    /\ UNCHANGED <<extVars, componentName, projectDir, cwd, fileResult, probes, dateNow,
                   serverTimeoutMinutes, portResult, promise, listenFailed,
                   hookInstalled, timer, pending, nextTimerId, now, lastActivity,
                   callbacks, exited, exitStatus, errorLog>>

\* lines 25-28: createServer(lwrConfig), getConfig, getInternalServer
CreateServer ==
    /\ pc = "configured" /\ ~exited
    /\ calls' = [calls EXCEPT !.createServer = @ + 1]
    /\ pc' = "created"
    /\ UNCHANGED <<extVars, cfgVars, promise, listenFailed, hookInstalled, timer, pending,
                   nextTimerId, now, lastActivity, callbacks, exited, exitStatus,
                   errorLog>>

\* a slip: the idle timer is armed when listen is called, not when it is bound
ListenCallArmsTimer ==
    /\ pc = "created" /\ ~exited
    /\ calls' = [calls EXCEPT !.listen = @ + 1]
    /\ pending' = setShutDownTimer(pending)
    /\ timer' = nextTimerId
    /\ nextTimerId' = nextTimerId + 1
    /\ pc' = "listening"
    /\ UNCHANGED <<extVars, cfgVars, promise, listenFailed, hookInstalled, now, lastActivity,
                   callbacks, exited, exitStatus, errorLog>>

\* line 30: lwrApp.listen(callback) is called
ListenCall ==
    /\ pc = "created" /\ ~exited
    /\ calls' = [calls EXCEPT !.listen = @ + 1]
    /\ pc' = "listening"
    /\ UNCHANGED <<extVars, cfgVars, promise, listenFailed, hookInstalled, timer, pending,
                   nextTimerId, now, lastActivity, callbacks, exited, exitStatus,
                   errorLog>>

\* lines 31-50: the listener is bound and the listen callback runs: it arms
\* the idle timer and installs the request hook
ListenBound ==
    /\ pc = "listening" /\ ~exited
    /\ pending' = setShutDownTimer(pending)
    /\ timer' = nextTimerId
    /\ nextTimerId' = nextTimerId + 1
    /\ hookInstalled' = TRUE
    /\ lastActivity' = now
    /\ pc' = "bound"
    /\ UNCHANGED <<extVars, cfgVars, promise, listenFailed, calls, now, callbacks, exited,
                   exitStatus, errorLog>>

\* lines 51-53: the promise of listen is fulfilled; `${runtimeConfig.port}`
ListenResolve ==
    /\ pc = "bound" /\ ~exited
    /\ promise' = [state |-> "resolved", value |-> NumToStr(RuntimePort)]
    /\ pc' = "resolved"
    /\ UNCHANGED <<extVars, cfgVars, listenFailed, calls, hookInstalled, timer, pending,
                   nextTimerId, now, lastActivity, callbacks, exited, exitStatus,
                   errorLog>>

\* a slip: a failed listen is tried again
ListenFailRetries ==
    /\ pc = "listening" /\ ~exited
    /\ listenFailed' = TRUE
    /\ pc' = "created"
    /\ UNCHANGED <<extVars, cfgVars, promise, calls, hookInstalled, timer, pending, nextTimerId,
                   now, lastActivity, callbacks, exited, exitStatus, errorLog>>

\* lines 30-53: the promise of listen is rejected; there is no catch, so the
\* rejection is the result of startLwrServer
ListenFail ==
    /\ pc = "listening" /\ ~exited
    /\ listenFailed' = TRUE
    /\ promise' = [state |-> "rejected", value |-> <<"listen-error">>]
    /\ pc' = "rejected"
    /\ UNCHANGED <<extVars, cfgVars, calls, hookInstalled, timer, pending, nextTimerId, now,
                   lastActivity, callbacks, exited, exitStatus, errorLog>>

\* a slip: a request leaves the timer alone (a fixed deadline after bind)
OnRequestKeepsDeadline ==
    /\ hookInstalled /\ ~exited
    /\ nextTimerId <= MaxTimers
    /\ nextTimerId' = nextTimerId + 1
    /\ lastActivity' = now
    /\ UNCHANGED <<extVars, cfgVars, pc, promise, listenFailed, calls, hookInstalled, now,
                   timer, pending, callbacks, exited, exitStatus, errorLog>>

\* lines 41-49: the 'request' handler
OnRequest ==
    /\ hookInstalled /\ ~exited
    /\ nextTimerId <= MaxTimers
    /\ pending' = setShutDownTimer(IF timer # 0 THEN clearTimeout(pending, timer)
                                   ELSE pending)
    /\ timer' = nextTimerId
    /\ nextTimerId' = nextTimerId + 1
    /\ lastActivity' = now
    /\ UNCHANGED <<extVars, cfgVars, pc, promise, listenFailed, calls, hookInstalled, now,
                   callbacks, exited, exitStatus, errorLog>>

\* a minute passes; a timeout that is due runs before the clock moves on.
\* The clock is followed up to MaxTime, and beyond it for as long as a
\* timeout is still scheduled.
Tick ==
    /\ pc \in {"bound", "resolved"} /\ ~exited
    /\ now < MaxTime * MsPerMinute \/ pending # {}
    /\ \A t \in pending : t.due > now
    /\ now' = now + MsPerMinute
    /\ UNCHANGED <<extVars, cfgVars, pc, promise, listenFailed, calls, hookInstalled, timer,
                   pending, nextTimerId, lastActivity, callbacks, exited, exitStatus,
                   errorLog>>

\* what lwrapp.close() does: its promise is fulfilled, is rejected (or the
\* call throws), or is never settled
CloseOutcomes == {"resolves", "rejects", "never"}

\* lines 187-194: a timeout expires; the callback logs and awaits lwrapp.close()
TimerFire(t) ==
    /\ ~exited
    /\ t \in pending /\ t.due <= now
    /\ pending' = pending \ {t}
    /\ calls' = [calls EXCEPT !.close = @ + 1]
    /\ \E outcome \in CloseOutcomes :
           callbacks' = Append(callbacks,
               [timer |-> t.id, firedAt |-> now, idleSince |-> lastActivity,
                close |-> outcome, closeAttempts |-> 1, state |-> "awaiting"])
    /\ UNCHANGED <<extVars, cfgVars, pc, promise, listenFailed, hookInstalled, timer,
                   nextTimerId, now, lastActivity, exited, exitStatus, errorLog>>

\* a slip: the callback exits only if no request has armed a timer since
CloseResolvedUnlessRearmed(k) ==
    /\ ~exited
    /\ timer = callbacks[k].timer
    /\ callbacks[k].state = "awaiting" /\ callbacks[k].close = "resolves"
    /\ callbacks' = [callbacks EXCEPT ![k].state = "exited"]
    /\ exited' = TRUE
    /\ exitStatus' = 0
    /\ UNCHANGED <<extVars, cfgVars, pc, promise, listenFailed, calls, hookInstalled, timer,
                   pending, nextTimerId, now, lastActivity, errorLog>>

\* lines 192-194, 202: close completed; process.exit(0)
CloseResolved(k) ==
    /\ ~exited
    /\ callbacks[k].state = "awaiting" /\ callbacks[k].close = "resolves"
    /\ callbacks' = [callbacks EXCEPT ![k].state = "exited"]
    /\ exited' = TRUE
    /\ exitStatus' = 0
    /\ UNCHANGED <<extVars, cfgVars, pc, promise, listenFailed, calls, hookInstalled, timer,
                   pending, nextTimerId, now, lastActivity, errorLog>>

\* a slip: exitCode stays 0 when close fails
CloseRejectedExitsZero(k) ==
    /\ ~exited
    /\ callbacks[k].state = "awaiting" /\ callbacks[k].close = "rejects"
    /\ callbacks' = [callbacks EXCEPT ![k].state = "exited"]
    /\ errorLog' = errorLog + 1
    /\ exited' = TRUE
    /\ exitStatus' = 0
    /\ UNCHANGED <<extVars, cfgVars, pc, promise, listenFailed, calls, hookInstalled, timer,
                   pending, nextTimerId, now, lastActivity>>

\* lines 195-202: close failed; console.error, exitCode = 1, process.exit(1)
CloseRejected(k) ==
    /\ ~exited
    /\ callbacks[k].state = "awaiting" /\ callbacks[k].close = "rejects"
    /\ callbacks' = [callbacks EXCEPT ![k].state = "exited"]
    /\ errorLog' = errorLog + 1
    /\ exited' = TRUE
    /\ exitStatus' = 1
    /\ UNCHANGED <<extVars, cfgVars, pc, promise, listenFailed, calls, hookInstalled, timer,
                   pending, nextTimerId, now, lastActivity>>

Next ==
    \/ BuildConfig
    \/ CreateServer
    \/ ListenCall
    \/ ListenBound
    \/ ListenResolve
    \/ ListenFail
    \/ OnRequest
    \/ Tick
    \/ \E t \in pending : TimerFire(t)
    \/ \E k \in DOMAIN callbacks : CloseResolved(k)
    \/ \E k \in DOMAIN callbacks : CloseRejected(k)

Spec == Init /\ [][Next]_vars

\* Once the server is up, the event loop runs every step that is ready and the
\* clock advances; when requests arrive is up to the environment, and a close
\* whose outcome is "never" has no step to run.
SpecFair ==
    /\ Spec
    /\ WF_vars(ListenResolve)
    /\ WF_vars(Tick)
    /\ WF_vars(\E t \in pending : TimerFire(t))
    /\ WF_vars(\E k \in DOMAIN callbacks : CloseResolved(k))
    /\ WF_vars(\E k \in DOMAIN callbacks : CloseRejected(k))

----------------------------------------------------------------------------
(* Claims about the server lifecycle (Spec, SpecFair) *)

Listening == pc \in {"bound", "resolved"}

IdleDelay == TimeoutDelay(serverTimeoutMinutes)

\* the callback has run for the idle period that began at lastActivity
ShutdownTriggered == \E k \in DOMAIN callbacks : callbacks[k].idleSince = lastActivity

\* some request was handled (the bind armed timeout 1)
RequestSeen == timer > 1

\* C1: after bind, as long as each request arrives less than the idle timeout
\* after the previous one (or after bind), shutdown is not triggered: every
\* run of the shutdown callback starts a full idle timeout after the last
\* request before it.  And once the idle timeout has elapsed since the last
\* request (or since bind), the callback runs: until it has, the timeout for
\* that instant is scheduled and the clock cannot pass it.
C1_SlidingIdleWindow ==
    /\ \A k \in DOMAIN callbacks :
           callbacks[k].firedAt - callbacks[k].idleSince = IdleDelay
    /\ (Listening /\ ~exited /\ ~ShutdownTriggered) =>
           /\ now - lastActivity <= IdleDelay
           /\ [id |-> timer, due |-> lastActivity + IdleDelay] \in pending
    /\ (Listening /\ now - lastActivity > IdleDelay) => ShutdownTriggered

\* requests spaced less than the timeout apart have kept the server up past
\* the first deadline, and then a full idle gap has triggered the shutdown
C1_Witness ==
    /\ serverTimeoutMinutes = 2
    /\ timer = 3
    /\ Len(callbacks) = 1
    /\ callbacks[1].idleSince = 2 * MsPerMinute
    /\ callbacks[1].firedAt = 4 * MsPerMinute

\* C2 (as claimed): whenever the idle timer fires, the process eventually
\* exits, whatever the close attempt does (succeeds, throws, stays pending).
C2_ExitAfterExpiry == [](callbacks # <<>> => <>exited)

\* the callback that called process.exit
Exiting == CHOOSE k \in DOMAIN callbacks : callbacks[k].state = "exited"

\* C3: on expiry the close is attempted exactly once (one call of close per
\* run of the callback, none anywhere else) before the process exits; the
\* exit status is 0 if and only if that close completed without error; if it
\* threw, the error was logged and the status is 1.
C3_CloseOnceThenExit ==
    /\ calls.close = Len(callbacks)
    /\ \A k \in DOMAIN callbacks : callbacks[k].closeAttempts = 1
    /\ exited =>
           /\ Cardinality({k \in DOMAIN callbacks : callbacks[k].state = "exited"}) = 1
           /\ exitStatus = 0 <=> callbacks[Exiting].close = "resolves"
           /\ callbacks[Exiting].close = "rejects" => (errorLog = 1 /\ exitStatus = 1)
           /\ callbacks[Exiting].close = "resolves" => errorLog = 0
           /\ callbacks[Exiting].close # "never"
    /\ ~exited => (errorLog = 0 /\ exitStatus = 0)

C3_Witness ==
    /\ exited /\ exitStatus = 1 /\ errorLog = 1
    /\ callbacks[Exiting].close = "rejects"

C3_WitnessSuccess ==
    /\ exited /\ exitStatus = 0
    /\ callbacks[Exiting].close = "resolves"

\* C4: after bind, for any sequence of requests, at most one idle timer is
\* pending, and before the first expiry exactly one is: the one `timer` holds.
C4_SingleTimer ==
    /\ Cardinality(pending) <= 1
    /\ \A t \in pending : t.id = timer
    /\ (Listening /\ callbacks = <<>>) => Cardinality(pending) = 1
    /\ ~Listening => pending = {}

C4_Witness ==
    /\ RequestSeen /\ timer = 3
    /\ callbacks = <<>>
    /\ Cardinality(pending) = 1

DigitValue(c) == CHOOSE d \in 0..9 : Digit(d) = c

\* parseInt(s, 10) of a string of digits
RECURSIVE ParseInt(_)
ParseInt(s) ==
    IF Len(s) = 1 THEN DigitValue(s[1])
    ELSE 10 * ParseInt(SubSeq(s, 1, Len(s) - 1)) + DigitValue(s[Len(s)])

\* C5: startLwrServer builds the configuration, then creates the server, then
\* listens; the idle timer is armed and the request hook installed only after
\* the listener is bound; the promise resolves only after bind, with the
\* string form of the effective configuration's port.
C5_StartOrder ==
    /\ calls.listen <= calls.createServer
    /\ calls.createServer <= calls.getMergedLwrConfig
    /\ calls.getMergedLwrConfig > 0 <=> lwrConfig # None
    /\ (timer # 0 \/ pending # {} \/ hookInstalled \/ nextTimerId > 1) =>
           (Listening /\ calls.listen = 1)
    /\ Listening => (hookInstalled /\ timer # 0)
    /\ promise.state = "resolved" =>
           /\ pc = "resolved"
           /\ hookInstalled
           /\ ParseInt(promise.value) = lwrConfig[1].port[1]
           /\ Len(promise.value) = 4

C5_Witness ==
    /\ promise.state = "resolved"
    /\ promise.value = <<"3", "0", "0", "2">>
    /\ fileResult = None

\* C6: if listen fails, the promise of startLwrServer is rejected with that
\* failure, no second listen or port selection is attempted, and no idle
\* timer is armed.
C6_ListenFailure ==
    listenFailed =>
        /\ promise = [state |-> "rejected", value |-> <<"listen-error">>]
        /\ calls.listen = 1
        /\ calls.getMergedLwrConfig = 1
        /\ calls.createServer = 1
        /\ timer = 0 /\ pending = {} /\ nextTimerId = 1
        /\ ~hookInstalled
        /\ callbacks = <<>> /\ ~exited

C6_Witness == listenFailed /\ pc = "rejected" /\ promise.state = "rejected"

----------------------------------------------------------------------------
(* Claims about getNextAvailablePort and getMergedLwrConfig (SpecConfig) *)

\* the number of answers "inuse" before the first other answer
LeadingInUse(answers) ==
    CHOOSE k \in 0..Len(answers) :
        /\ \A j \in 1..k : answers[j] = "inuse"
        /\ k = Len(answers) \/ answers[k + 1] # "inuse"

\* C7: getNextAvailablePort returns 3000 + 2k, k the number of consecutive
\* candidates 3000, 3002, ... probed in use before the first candidate probed
\* free (blank output or a probe that raised); so the result is >= 3000, has
\* the parity of 3000, and every smaller candidate was probed in use.
C7_PortIsFirstFreeCandidate ==
    portResult # None =>
        LET r == portResult[1]
            k == LeadingInUse(probes)
        IN  /\ r.returned
            /\ k < Len(probes)
            /\ probes[k + 1] \in {"blank", "raised"}
            /\ r.port = 3000 + 2 * k
            /\ r.port >= 3000
            /\ r.port % 2 = 3000 % 2
            /\ \A c \in 0..(k - 1) : 3000 + 2 * c < r.port /\ probes[c + 1] = "inuse"
            /\ r.probed = k + 1

C7_Witness ==
    /\ portResult # None
    /\ probes = <<"inuse", "inuse", "raised">>
    /\ portResult[1].port = 3004

UserConfig == fileResult[1]

\* C8 (as claimed): every one of serverMode, port, rootDir, cacheDir that is
\* present in the user configuration keeps the user's value, and every absent
\* one gets its default ('dev', the next available port, the resolved
\* project directory).
C8_MergeLaw ==
    (lwrConfig # None /\ fileResult # None) =>
        LET cfg == lwrConfig[1]
            user == UserConfig
        IN  /\ user.serverMode # None => cfg.serverMode = user.serverMode
            /\ user.port # None => cfg.port = user.port
            /\ user.rootDir # None => cfg.rootDir = user.rootDir
            /\ user.cacheDir # None => cfg.cacheDir = user.cacheDir
            /\ user.serverMode = None => cfg.serverMode = Some(<<"dev">>)
            /\ user.port = None => cfg.port = Some(3000 + 2 * LeadingInUse(probes))
            /\ user.rootDir = None => cfg.rootDir = Some(Resolve(cwd, projectDir))

\* The merge law as the code has it: a field is kept when its value is truthy
\* (a non-empty string, a non-zero number); otherwise it gets the default.
MergeLawForTruthyFields ==
    (lwrConfig # None /\ fileResult # None) =>
        LET cfg == lwrConfig[1]
            user == UserConfig
        IN  /\ (user.serverMode # None /\ user.serverMode[1] # <<>>)
                   => cfg.serverMode = user.serverMode
            /\ (user.port # None /\ user.port[1] # 0) => cfg.port = user.port
            /\ (user.rootDir # None /\ user.rootDir[1] # <<>>)
                   => cfg.rootDir = user.rootDir
            /\ cfg.cacheDir = user.cacheDir
            /\ user.serverMode \in {None, Some(<<>>)} => cfg.serverMode = Some(<<"dev">>)
            /\ user.port \in {None, Some(0)}
                   => cfg.port = Some(3000 + 2 * LeadingInUse(probes))
            /\ user.rootDir \in {None, Some(<<>>)}
                   => cfg.rootDir = Some(Resolve(cwd, projectDir))

\* what the user configuration declares for a list field: nothing when absent
Declared(f) == IF f = None THEN <<>> ELSE f[1]

DeclaredModules(user) == IF user.lwc = None THEN <<>> ELSE Declared(user.lwc[1].modules)

\* C9: for lwc.modules, moduleProviders and routes, whatever the user
\* configuration declares (absent, empty or non-empty), the effective list is
\* the computed default entries followed by all user entries in their order.
C9_DefaultsPrepended ==
    lwrConfig # None =>
        LET cfg == lwrConfig[1]
            user == LoadedConfig(fileResult)
            modules == cfg.lwc[1].modules[1]
            providers == cfg.moduleProviders[1]
            routes == cfg.routes[1]
            nProv == Len(getModifiedModuleProviders)
        IN  /\ cfg.lwc # None /\ cfg.lwc[1].modules # None
            /\ Len(modules) = 1 + Len(DeclaredModules(user))
            /\ modules[1] = [dir |-> twoLevelUp(cwd, projectDir, componentName)]
            /\ \A i \in 1..Len(DeclaredModules(user)) :
                   modules[i + 1] = DeclaredModules(user)[i]
            /\ Len(providers) = nProv + Len(Declared(user.moduleProviders))
            /\ providers[1] = "CustomLwcModuleProvider.js"
            /\ SubSeq(providers, 1, nProv) = getModifiedModuleProviders
            /\ \A i \in 1..Len(Declared(user.moduleProviders)) :
                   providers[nProv + i] = Declared(user.moduleProviders)[i]
            /\ Len(routes) = 1 + Len(Declared(user.routes))
            /\ routes[1].path = <<"/">>
            /\ routes[1].rootComponent = rootComp(cwd, projectDir, componentName)
            /\ \A i \in 1..Len(Declared(user.routes)) :
                   routes[i + 1] = Declared(user.routes)[i]

C9_Witness ==
    /\ lwrConfig # None
    /\ fileResult # None
    /\ UserConfig.lwc # None
    /\ Len(DeclaredModules(UserConfig)) = 2
    /\ DeclaredModules(UserConfig)[1] # DeclaredModules(UserConfig)[2]
    /\ Len(Declared(UserConfig.routes)) = 2
    /\ Declared(UserConfig.routes)[1] # Declared(UserConfig.routes)[2]
    /\ Len(Declared(UserConfig.moduleProviders)) = 2
    /\ Len(lwrConfig[1].routes[1]) = 3

\* the segments of the resolved component path, by the rules of path.resolve
ComponentSegments ==
    NormalizeFrom(<<>>,
        (IF IsAbsolute(projectDir) \/ (projectDir = <<>> /\ IsAbsolute(componentName))
         THEN <<>> ELSE Segments(cwd))
        \o Segments(projectDir) \o Segments(componentName))

IsProperPrefix(a, b) == Len(a) < Len(b) /\ SubSeq(b, 1, Len(a)) = a

\* what C10 says of one effective configuration
TwoLevelsUpLaw(cfg) ==
    LET comp == ComponentSegments
        n == Len(comp)
        dir == cfg.lwc[1].modules[1][1].dir
        route == cfg.routes[1][1]
    IN  /\ dir = PathStr(SubSeq(comp, 1, n - 2))
        /\ IsProperPrefix(Segments(dir), comp)
        /\ route.path = <<"/">>
        /\ route.rootComponent = RelStr(SubSeq(comp, n - 1, n))
        /\ route.rootComponent = RelStr(SubSeq(comp, Len(Segments(dir)) + 1, n))
        /\ route.id = ReplaceAllTok(route.rootComponent, "/", "-")
                      \o <<"-">> \o NumToStr(dateNow)

\* C10 (as claimed): for every project directory and component reference
\* (with a component path that has two levels above it), the module search
\* directory is the directory two levels above the resolved component path
\* and an ancestor of it, the default route has path '/' and rootComponent
\* equal to the last two segments of the component path joined by '/', and
\* the route id is that rootComponent with '/' replaced by '-', then '-' and
\* the timestamp.
C10_TwoLevelsUp ==
    (lwrConfig # None /\ Len(ComponentSegments) >= 2) => TwoLevelsUpLaw(lwrConfig[1])

\* the same for components at least three levels below the file system root
TwoLevelsUpBelowRoot ==
    (lwrConfig # None /\ Len(ComponentSegments) >= 3) => TwoLevelsUpLaw(lwrConfig[1])

----------------------------------------------------------------------------
(* Strings of the module resolvers.  A string is still a sequence of pieces:  *)
(* "/", ".", "#" are pieces of their own, and a name is one piece or several  *)
(* adjacent pieces (<<"x", "foo">> is the name "xfoo").                       *)

StartsWith(s, p) == Len(p) <= Len(s) /\ SubSeq(s, 1, Len(p)) = p
EndsWith(s, p) == Len(p) <= Len(s) /\ SubSeq(s, Len(s) - Len(p) + 1, Len(s)) = p

MinOf(S) == CHOOSE x \in S : \A y \in S : x <= y
MaxOf(S) == CHOOSE x \in S : \A y \in S : x >= y

\* String.prototype.split(d), d one piece
RECURSIVE SplitOn(_, _)
SplitOn(s, d) ==
    LET hits == {i \in 1..Len(s) : s[i] = d}
    IN  IF hits = {} THEN <<s>>
        ELSE <<SubSeq(s, 1, MinOf(hits) - 1)>>
             \o SplitOn(SubSeq(s, MinOf(hits) + 1, Len(s)), d)

\* Array.prototype.join(d)
RECURSIVE JoinWith(_, _)
JoinWith(parts, d) ==
    IF parts = <<>> THEN <<>>
    ELSE IF Len(parts) = 1 THEN parts[1]
    ELSE parts[1] \o <<d>> \o JoinWith(Tail(parts), d)

\* String.prototype.lastIndexOf(t), zero-based, -1 when absent
LastIndexOf(s, t) ==
    LET hits == {i \in 1..Len(s) : s[i] = t}
    IN  IF hits = {} THEN -1 ELSE MaxOf(hits) - 1

\* the segments of a path: the non-empty runs between separators
PathRuns(p) == SelectSeq(SplitOn(p, sep), LAMBDA r : r # <<>>)

Dot == <<".">>
DotDot == <<".", ".">>

RECURSIVE NormalizeRuns(_, _, _)
NormalizeRuns(stack, runs, abs) ==
    IF runs = <<>> THEN stack
    ELSE LET h == Head(runs)
         IN  IF h = Dot THEN NormalizeRuns(stack, Tail(runs), abs)
             ELSE IF h = DotDot
                  THEN IF stack # <<>> /\ stack[Len(stack)] # DotDot
                       THEN NormalizeRuns(SubSeq(stack, 1, Len(stack) - 1), Tail(runs), abs)
                       ELSE IF abs THEN NormalizeRuns(stack, Tail(runs), abs)
                       ELSE NormalizeRuns(Append(stack, h), Tail(runs), abs)
                  ELSE NormalizeRuns(Append(stack, h), Tail(runs), abs)

\* path.normalize (POSIX): "" gives ".", a trailing separator is kept
PathNormalize(p) ==
    LET abs == IsAbsolute(p)
        body == JoinWith(NormalizeRuns(<<>>, PathRuns(p), abs), sep)
        trail == IF body # <<>> /\ EndsWith(p, <<sep>>) THEN <<sep>> ELSE <<>>
    IN  IF p = <<>> THEN Dot
        ELSE IF abs THEN <<sep>> \o body \o trail
        ELSE IF body = <<>> THEN (IF EndsWith(p, <<sep>>) THEN <<".", sep>> ELSE Dot)
        ELSE body \o trail

\* path.join(a, b): the non-empty arguments joined by a separator, normalized
PathJoin(a, b) ==
    IF a = <<>> /\ b = <<>> THEN Dot
    ELSE IF a = <<>> THEN PathNormalize(b)
    ELSE IF b = <<>> THEN PathNormalize(a)
    ELSE PathNormalize(a \o <<sep>> \o b)

\* path.basename(p)
PathBasename(p) ==
    IF PathRuns(p) = <<>> THEN <<>> ELSE PathRuns(p)[Len(PathRuns(p))]

\* path.extname(p): from the last "." of the base name, unless that "." leads it
PathExtname(p) ==
    LET b == PathBasename(p)
        dots == {i \in 2..Len(b) : b[i] = "."}
    IN  IF dots = {} \/ b = DotDot THEN <<>> ELSE SubSeq(b, MaxOf(dots), Len(b))

\* path.parse(p).dir and path.parse(p).name
PathParseDir(p) ==
    LET seps == {i \in 1..Len(p) : p[i] = sep}
    IN  IF seps = {} THEN <<>>
        ELSE IF MaxOf(seps) = 1 THEN <<sep>>
        ELSE SubSeq(p, 1, MaxOf(seps) - 1)

PathParseName(p) ==
    SubSeq(PathBasename(p), 1, Len(PathBasename(p)) - Len(PathExtname(p)))

\* a JavaScript Map: the entries <<key, value>> in insertion order
MapHas(map, key) == \E i \in 1..Len(map) : map[i][1] = key

\* Map.prototype.get; <<>> stands for undefined
MapGet(map, key) ==
    IF MapHas(map, key)
    THEN Some(map[CHOOSE i \in 1..Len(map) : map[i][1] = key][2])
    ELSE None

\* Map.prototype.set: a known key keeps its place and takes the new value
MapSet(map, key, value) ==
    IF MapHas(map, key)
    THEN [i \in 1..Len(map) |-> IF map[i][1] = key THEN <<key, value>> ELSE map[i]]
    ELSE Append(map, <<key, value>>)

----------------------------------------------------------------------------
(* The Component Locator: generateSfdxComponentsMap and                      *)
(* generateSfdxLabelComponentsMap                                            *)

\* sfdx-project.json as the locator finds it: absent, not readable, not JSON,
\* JSON without a packageDirectories list, or well formed
ManifestStates == {"missing", "unreadable", "invalid", "nolist", "ok"}

\* the statement of the try block that throws on reading the manifest
ManifestFailure(m) ==
    CASE m \in {"missing", "unreadable"} -> "readFileSync"
      [] m = "invalid" -> "JSON.parse"
      [] m = "nolist" -> "pkgDirs.map"
      [] OTHER -> "none"

\* name = data.name.replace('.js-meta', ''); if (data.dir.endsWith(name)) map.set(name, data.dir)
ComponentOf(item) ==
    [name |-> ReplaceFirst(PathParseName(item), <<".", "js-meta">>, <<>>),
     dir  |-> PathParseDir(item)]

RECURSIVE CollectComponents(_, _)
CollectComponents(map, files) ==
    IF files = <<>> THEN map
    ELSE LET c == ComponentOf(Head(files))
         IN  CollectComponents(IF EndsWith(c.dir, c.name) THEN MapSet(map, c.name, c.dir)
                               ELSE map,
                               Tail(files))

\* the try block of generateSfdxComponentsMap: whether an exception left it,
\* and the map as it stood then
ComponentScanAttempt(m, glob) ==
    IF ManifestFailure(m) # "none" \/ glob.throws
    THEN [threw |-> TRUE, map |-> <<>>]
    ELSE [threw |-> FALSE, map |-> CollectComponents(<<>>, glob.files)]

\* a slip: the glob is run outside the try block
generateSfdxComponentsMapGlobUnguarded(m, glob) ==
    [raised |-> ManifestFailure(m) = "none" /\ glob.throws,
     map |-> ComponentScanAttempt(m, glob).map]

\* try { ... } catch { /* ignore and continue */ } return map
generateSfdxComponentsMap(m, glob) ==
    [raised |-> FALSE, map |-> ComponentScanAttempt(m, glob).map]

\* a slip: the first file that cannot be read or parsed ends the scan
RECURSIVE CollectLabelsUntilFailure(_, _, _)
CollectLabelsUntilFailure(map, files, rootDir) ==
    IF files = <<>> THEN map
    ELSE LET f == Head(files)
         IN  IF f.state # "parsed" THEN map
             ELSE CollectLabelsUntilFailure(
                      MapSet(map, ReplaceFirst(f.path, rootDir \o <<sep>>, <<>>), f.doc),
                      Tail(files), rootDir)

\* one label file: try { readFileSync; parse; map.set(relative path, jsonObj) } catch {}
RECURSIVE CollectLabels(_, _, _)
CollectLabels(map, files, rootDir) ==
    IF files = <<>> THEN map
    ELSE LET f == Head(files)
         IN  CollectLabels(IF f.state = "parsed"
                           THEN MapSet(map, ReplaceFirst(f.path, rootDir \o <<sep>>, <<>>), f.doc)
                           ELSE map,
                           Tail(files), rootDir)

LabelScanAttempt(m, glob, rootDir) ==
    IF ManifestFailure(m) # "none" \/ glob.throws
    THEN [threw |-> TRUE, map |-> <<>>]
    ELSE [threw |-> FALSE, map |-> CollectLabels(<<>>, glob.files, rootDir)]

generateSfdxLabelComponentsMap(m, glob, rootDir) ==
    [raised |-> FALSE, map |-> LabelScanAttempt(m, glob, rootDir).map]

----------------------------------------------------------------------------
(* The module resolvers.  An answer is [kind |-> "undefined"], a rejection   *)
(* [kind |-> "rejected"], or a record with kind "entry" / "module".          *)

Undefined == [kind |-> "undefined"]
Rejected == [kind |-> "rejected"]

ProviderVersion == <<"1">>

\* `${specifier}|${this.version}`
ModuleIdOf(specifier) == specifier \o <<"|">> \o ProviderVersion

\* `<virtual>/${specifier}${path.extname(specifier) ? '' : '.js'}`
VirtualEntry(specifier) ==
    <<"<virtual>", sep>> \o specifier
    \o (IF PathExtname(specifier) # <<>> THEN <<>> ELSE <<".", "js">>)

\* `export default "${text}";`
DefaultExportOf(text) == <<"export default \"">> \o text \o <<"\";">>

\* hashContent: only known to give equal hashes for equal content
hashContent(source) == <<"hash-of">> \o source

\* ---- SalesforceLabelProvider

LABEL_PREFIX == <<"@salesforce", sep, "label", sep>>

isLabelScopedModule(id) == StartsWith(id, LABEL_PREFIX)

\* specifier?.split('/')[2]?.split('.')[1]; <<>> stands for undefined
LabelNameOf(specifier) ==
    LET parts == SplitOn(specifier, sep)
    IN  IF Len(parts) < 3 THEN None
        ELSE IF Len(SplitOn(parts[3], ".")) < 2 THEN None
        ELSE Some(SplitOn(parts[3], ".")[2])

\* labels = item[1].CustomLabels?.labels; if (!Array.isArray(labels)) labels = [labels]
\* A document is [shape, labels]: shape "array" or "object" (a single label),
\* "empty" (CustomLabels without labels) or "none" (no CustomLabels element).
LabelsToSearch(doc) ==
    IF doc.shape \in {"array", "object"} THEN [defined |-> TRUE, items |-> doc.labels]
    ELSE [defined |-> FALSE, items |-> <<>>]      \* the list [undefined]

FirstLabelNamed(items, labelName) ==
    LET hits == {i \in 1..Len(items) : items[i].fullName = labelName}
    IN  IF hits = {} THEN None ELSE Some(items[MinOf(hits)])

\* the for loop over the map; reading item.fullName of undefined throws
RECURSIVE SearchLabelDocs(_, _, _)
SearchLabelDocs(map, i, labelName) ==
    IF i > Len(map) THEN [raised |-> FALSE, value |-> None]
    ELSE LET labels == LabelsToSearch(map[i][2])
         IN  IF ~labels.defined THEN [raised |-> TRUE, value |-> None]
             ELSE IF FirstLabelNamed(labels.items, labelName) # None
                  THEN [raised |-> FALSE,
                        value |-> Some(FirstLabelNamed(labels.items, labelName)[1].value)]
                  ELSE SearchLabelDocs(map, i + 1, labelName)

getLabelValueFromMap(map, specifier) ==
    IF LabelNameOf(specifier) = None \/ LabelNameOf(specifier) = Some(<<>>)
    THEN [raised |-> FALSE, value |-> None]
    ELSE SearchLabelDocs(map, 1, LabelNameOf(specifier)[1])

\* SalesforceLabelProvider.getModuleEntry; if (matchedLabel) is false for ""
LabelGetModuleEntry(map, specifier) ==
    IF ~isLabelScopedModule(specifier) THEN Undefined
    ELSE LET matched == getLabelValueFromMap(map, specifier)
         IN  IF matched.raised THEN Rejected
             ELSE IF matched.value = None \/ matched.value = Some(<<>>) THEN Undefined
             ELSE [kind |-> "entry", id |-> ModuleIdOf(specifier), virtual |-> TRUE,
                   entry |-> VirtualEntry(specifier), specifier |-> specifier,
                   version |-> ProviderVersion, labelValue |-> matched.value[1]]

\* SalesforceLabelProvider.getModule
LabelGetModule(map, specifier) ==
    LET moduleEntry == LabelGetModuleEntry(map, specifier)
    IN  IF moduleEntry.kind = "rejected" THEN Rejected
        ELSE IF moduleEntry.kind = "undefined" THEN Undefined
        ELSE IF moduleEntry.labelValue = <<>> THEN Undefined
        ELSE [kind |-> "module", id |-> moduleEntry.id, specifier |-> specifier,
              version |-> ProviderVersion,
              originalSource |-> DefaultExportOf(moduleEntry.labelValue),
              moduleEntry |-> moduleEntry,
              ownHash |-> hashContent(DefaultExportOf(moduleEntry.labelValue)),
              compiledSource |-> DefaultExportOf(moduleEntry.labelValue)]

\* ---- SalesforceResourceProvider

RESOURCE_URL_PREFIX == <<"@salesforce", sep, "resourceUrl", sep>>
CONTENT_ASSET_URL_PREFIX == <<"@salesforce", sep, "contentAssetUrl", sep>>

\* a slip: every '@salesforce/' specifier is taken for a resource
isResourceUrlScopedModuleAnyScope(id) == StartsWith(id, <<"@salesforce", sep>>)

isResourceUrlScopedModule(id) ==
    StartsWith(id, RESOURCE_URL_PREFIX) \/ StartsWith(id, CONTENT_ASSET_URL_PREFIX)

StaticResourcesFolder == <<"force-app", sep, "main", sep, "default", sep, "staticresources">>
ContentAssetsFolder == <<"force-app", sep, "main", sep, "default", sep, "contentassets">>

ResourceGetModuleEntry(specifier) ==
    IF isResourceUrlScopedModule(specifier)
    THEN [kind |-> "entry", id |-> ModuleIdOf(specifier), virtual |-> TRUE,
          entry |-> VirtualEntry(specifier), specifier |-> specifier,
          version |-> ProviderVersion]
    ELSE Undefined

\* fastGlob.sync([`${filePath}.*`, `!${filePath}.resource-meta.*`,
\*                `!${filePath}.asset-meta.*`], { onlyFiles: true })
\* over the files of the disk, in the order the disk lists them
MatchesStar(file, filePath) ==
    /\ StartsWith(file, filePath \o <<".">>)
    /\ \A i \in (Len(filePath) + 2)..Len(file) : file[i] # sep

IsSidecar(file, filePath) ==
    \E meta \in {"resource-meta", "asset-meta"} :
        MatchesStar(file, filePath \o <<".", meta>>)

GlobForExtension(listing, filePath) ==
    SelectSeq(listing, LAMBDA f : MatchesStar(f, filePath) /\ ~IsSidecar(f, filePath))

\* try { files = glob; if (files?.length > 0) return extname(files[0]) } catch {} return ''
getFileExtension(listing, globThrows, filePath) ==
    IF globThrows THEN <<>>
    ELSE IF Len(GlobForExtension(listing, filePath)) > 0
         THEN PathExtname(GlobForExtension(listing, filePath)[1])
         ELSE <<>>

\* getPath(name, folder), rootDir = path.resolve(process.env.ROOT_DIR ?? '')
getPath(listing, globThrows, c, envRootDir, name, folder) ==
    LET rootDir == Resolve(c, envRootDir)
        pathInFolder == PathJoin(folder, name)
        fullPath == PathNormalize(IF IsAbsolute(pathInFolder) THEN pathInFolder
                                  ELSE rootDir \o <<sep>> \o pathInFolder)
    IN  pathInFolder \o getFileExtension(listing, globThrows, fullPath)

\* moduleId.specifier.split('/')[2].split('.')[0]
ResourceNameOf(specifier) == SplitOn(SplitOn(specifier, sep)[3], ".")[1]

\* a slip: content assets are looked up among the static resources
ResourceFolderOfAlwaysStatic(specifier) == StaticResourcesFolder

ResourceFolderOf(specifier) ==
    IF StartsWith(specifier, CONTENT_ASSET_URL_PREFIX) THEN ContentAssetsFolder
    ELSE StaticResourcesFolder

ResourceGetModule(listing, globThrows, c, envRootDir, specifier) ==
    LET moduleEntry == ResourceGetModuleEntry(specifier)
        filePath == getPath(listing, globThrows, c, envRootDir,
                            ResourceNameOf(specifier), ResourceFolderOf(specifier))
    IN  IF moduleEntry.kind = "undefined" THEN Undefined
        ELSE [kind |-> "module", id |-> moduleEntry.id, specifier |-> specifier,
              version |-> ProviderVersion,
              originalSource |-> DefaultExportOf(filePath),
              moduleEntry |-> moduleEntry,
              ownHash |-> hashContent(DefaultExportOf(filePath)),
              compiledSource |-> DefaultExportOf(filePath)]

\* ---- CustomLwcModuleProvider

nestedModulesNamespace == <<"c", sep>>

\* the probe of lines 433-442: which file name the bare name becomes
ProbedName(listing, directoryname, name) ==
    IF PathJoin(directoryname, name) \o <<".", "js">> \in {listing[i] : i \in 1..Len(listing)}
    THEN name \o <<".", "js">>
    ELSE IF PathJoin(directoryname, name) \o <<".", "css">>
            \in {listing[i] : i \in 1..Len(listing)}
    THEN name \o <<".", "css">>
    ELSE name

\* CustomLwcModuleProvider.getModuleEntry.  own = TRUE: the entry built at
\* lines 449-454; own = FALSE: the answer of super.getModuleEntry (line 459)
ComponentGetModuleEntry(map, listing, base, specifier) ==
    LET parts == SplitOn(specifier, "#")
        baseSpecifier == ReplaceFirst(parts[1], nestedModulesNamespace, <<>>)
        fileRelativePath == IF Len(parts) > 1 THEN parts[2] ELSE <<>>
        directoryname == MapGet(map, baseSpecifier)
        bare == ReplaceFirst(specifier, nestedModulesNamespace, <<>>)
        name == IF fileRelativePath = <<>> /\ LastIndexOf(bare, ".") = -1
                THEN ProbedName(listing, directoryname[1], bare)
                ELSE bare
    IN  IF StartsWith(specifier, nestedModulesNamespace)
           /\ directoryname # None /\ directoryname # Some(<<>>)
        THEN [own |-> TRUE,
              answer |-> [kind |-> "entry", id |-> ModuleIdOf(specifier),
                          entry |-> PathJoin(directoryname[1],
                                             IF fileRelativePath # <<>> THEN fileRelativePath
                                             ELSE name),
                          specifier |-> specifier, version |-> ProviderVersion]]
        ELSE [own |-> FALSE, answer |-> base]

----------------------------------------------------------------------------
(* The projects and specifiers the resolvers are run on *)

LwcRoot == TypicalProject \o <<sep, "force-app", sep, "lwc">>
LabelsRoot == TypicalProject \o <<sep, "force-app", sep, "labels">>

\* <dir>/<file>.js-meta.xml under the lwc folder
MetaFile(dir, file) == LwcRoot \o <<sep>> \o dir \o <<sep>> \o file \o <<".", "js-meta", ".", "xml">>

\* the components foo and bar, a second file of foo, and a file foo in a
\* directory xfoo
ComponentMetaFiles ==
    {MetaFile(<<"foo">>, <<"foo">>), MetaFile(<<"bar">>, <<"bar">>),
     MetaFile(<<"foo">>, <<"helper">>), MetaFile(<<"x", "foo">>, <<"foo">>)}

FooDir == LwcRoot \o <<sep, "foo">>
BarDir == LwcRoot \o <<sep, "bar">>

GlobAnswers(files) ==
    {[throws |-> TRUE, files |-> <<>>]}
    \cup {[throws |-> FALSE, files |-> f] : f \in SeqsUpTo(files, MaxGlobbed)}

Label(name, value) == [fullName |-> name, value |-> value]

LabelDocs ==
    {[shape |-> "array", labels |-> <<Label(<<"greeting">>, <<"Hello">>),
                                      Label(<<"farewell">>, <<>>)>>],
     [shape |-> "array", labels |-> <<Label(<<"other">>, <<"Else">>)>>],
     [shape |-> "object", labels |-> <<Label(<<"greeting">>, <<"Hi">>)>>],
     [shape |-> "empty", labels |-> <<>>],
     [shape |-> "none", labels |-> <<>>]}

LabelFileNames == <<<<"A">>, <<"B">>, <<"C">>, <<"D">>>>

LabelFilePath(i) ==
    LabelsRoot \o <<sep>> \o LabelFileNames[i] \o <<".", "labels-meta", ".", "xml">>

\* what reading and parsing one label file gives
LabelFileStates ==
    {[state |-> "unreadable", doc |-> <<>>], [state |-> "malformed", doc |-> <<>>]}
    \cup {[state |-> "parsed", doc |-> d] : d \in LabelDocs}

\* the label files A, B, ... in scan order, each in any state
LabelGlobAnswers ==
    {[throws |-> TRUE, files |-> <<>>]}
    \cup {[throws |-> FALSE,
           files |-> [i \in 1..Len(st) |->
                        [path |-> LabelFilePath(i), state |-> st[i].state, doc |-> st[i].doc]]] :
          st \in SeqsUpTo(LabelFileStates, MaxLabelFiles)}

ResourceFile(folder, name) == TypicalProject \o <<sep>> \o folder \o <<sep>> \o name

ResourceFiles ==
    {ResourceFile(StaticResourcesFolder, <<"myImage", ".", "png">>),
     ResourceFile(StaticResourcesFolder, <<"myImage", ".", "resource-meta", ".", "xml">>),
     ResourceFile(StaticResourcesFolder, <<"myImage", ".", "tar", ".", "gz">>),
     ResourceFile(ContentAssetsFolder, <<"logo", ".", "jpg">>),
     ResourceFile(ContentAssetsFolder, <<"logo", ".", "asset-meta", ".", "xml">>),
     TypicalProject \o <<sep>> \o StaticResourcesFolder \o <<".", "zip">>}

ComponentSourceFiles ==
    {FooDir \o <<sep, "foo", ".", "js">>, FooDir \o <<sep, "foo", ".", "css">>,
     BarDir \o <<sep, "bar", ".", "css">>}

\* the sequences without repetition among seqs
Listings(seqs) == {l \in seqs : \A i, j \in 1..Len(l) : i # j => l[i] # l[j]}

Specifiers ==
    {<<"c", sep, "foo">>, <<"c", sep, "bar">>, <<"c", sep, "nope">>,
     <<"c", sep, "foo", "#", "foo", ".", "html">>,
     <<"c", sep, "foo", ".", "css">>,
     <<"lightning", sep, "button">>,
     LABEL_PREFIX \o <<"c", ".", "greeting">>,
     LABEL_PREFIX \o <<"c", ".", "farewell">>,
     LABEL_PREFIX \o <<"c", ".", "missing">>,
     RESOURCE_URL_PREFIX \o <<"myImage">>,
     RESOURCE_URL_PREFIX \o <<"nothing", ".", "txt">>,
     RESOURCE_URL_PREFIX,
     CONTENT_ASSET_URL_PREFIX \o <<"logo">>,
     CONTENT_ASSET_URL_PREFIX \o <<"myImage">>}

\* an entry of the wrapped provider, found in the plug-in's node_modules
BaseEntry ==
    [kind |-> "entry", id |-> <<"base">>,
     entry |-> <<sep, "plugin", sep, "node_modules", sep, "module", ".", "js">>,
     specifier |-> <<"base">>, version |-> <<"0">>]

----------------------------------------------------------------------------
(* The providers at work: construction, then calls of the host runtime *)

TypicalComponentGlob ==
    [throws |-> FALSE, files |-> <<MetaFile(<<"foo">>, <<"foo">>), MetaFile(<<"bar">>, <<"bar">>)>>]

TypicalLabelGlob ==
    [throws |-> FALSE,
     files |-> <<[path |-> LabelFilePath(1), state |-> "parsed",
                  doc |-> [shape |-> "array",
                           labels |-> <<Label(<<"greeting">>, <<"Hello">>),
                                        Label(<<"farewell">>, <<>>)>>]]>>]

\* every state of the manifest against every answer of the component scan
InitLocatorSweep ==
    /\ manifest \in ManifestStates
    /\ componentGlob \in GlobAnswers(ComponentMetaFiles)
    /\ labelGlob \in {TypicalLabelGlob, [throws |-> TRUE, files |-> <<>>]}
    /\ disk = <<>>
    /\ resourceGlobThrows = FALSE
    /\ baseAnswer = Undefined

\* every set of source files in the component directories
InitComponentSweep ==
    /\ manifest = "ok"
    /\ componentGlob = TypicalComponentGlob
    /\ labelGlob = TypicalLabelGlob
    /\ disk \in Listings(SeqsUpTo(ComponentSourceFiles, Cardinality(ComponentSourceFiles)))
    /\ resourceGlobThrows = FALSE
    /\ baseAnswer \in {Undefined, BaseEntry}

\* every run of label files
InitLabelSweep ==
    /\ manifest = "ok"
    /\ componentGlob = TypicalComponentGlob
    /\ labelGlob \in LabelGlobAnswers
    /\ disk = <<>>
    /\ resourceGlobThrows = FALSE
    /\ baseAnswer = Undefined

\* every listing of resource files
InitResourceSweep ==
    /\ manifest = "ok"
    /\ componentGlob = TypicalComponentGlob
    /\ labelGlob = TypicalLabelGlob
    /\ disk \in Listings(SeqsUpTo(ResourceFiles, MaxGlobbed))
    /\ resourceGlobThrows \in BOOLEAN
    /\ baseAnswer = Undefined

InitResolve ==
    /\ InitLocatorSweep \/ InitComponentSweep \/ InitLabelSweep \/ InitResourceSweep
    /\ ProvidersInit
    /\ projectDir = TypicalProject
    /\ componentName = TypicalComponent
    /\ cwd = <<sep, "home">>
    /\ dateNow = 7
    /\ fileResult = None
    /\ probes = <<"blank">>
    /\ serverTimeoutMinutes = 1
    /\ ResultsInit
    /\ ServerInit
    /\ AgainIdle
    /\ PrevIdle
    /\ EnvIdle
    /\ ReqIdle

\* new CustomLwcModuleProvider(options, context)
ConstructComponentProvider ==
    /\ moduleMap = None
    /\ moduleMap' = Some(generateSfdxComponentsMap(manifest, componentGlob))
    /\ UNCHANGED <<cfgVars, srvVars, againVars, prevVars, envVars, reqVars, projVars, customLabelsMap, request, response>>

\* new SalesforceLabelProvider(options, context)
ConstructLabelProvider ==
    /\ customLabelsMap = None
    /\ customLabelsMap' = Some(generateSfdxLabelComponentsMap(manifest, labelGlob, projectDir))
    /\ UNCHANGED <<cfgVars, srvVars, againVars, prevVars, envVars, reqVars, projVars, moduleMap, request, response>>

\* the providers are installed once both constructors have returned; the
\* host runtime makes one call at a time
ProvidersReady ==
    /\ moduleMap # None /\ customLabelsMap # None
    /\ ~moduleMap[1].raised /\ ~customLabelsMap[1].raised
    /\ request = NoRequest

Answered(resolver, op, specifier, answer) ==
    /\ request' = [resolver |-> resolver, op |-> op, specifier |-> specifier]
    /\ response' = answer
    /\ UNCHANGED <<cfgVars, srvVars, againVars, prevVars, envVars, reqVars, projVars, moduleMap, customLabelsMap>>

\* a slip: the resolver remembers the specifier it was asked for in its map
CallComponentGetModuleEntryRemembering ==
    /\ ProvidersReady
    /\ \E sp \in Specifiers :
        /\ request' = [resolver |-> "component", op |-> "getModuleEntry", specifier |-> sp]
        /\ response' = ComponentGetModuleEntry(moduleMap[1].map, disk, baseAnswer, sp)
        /\ moduleMap' = Some([moduleMap[1] EXCEPT !.map = MapSet(@, sp, <<>>)])
        /\ UNCHANGED <<cfgVars, srvVars, againVars, prevVars, envVars, reqVars, projVars, customLabelsMap>>

CallComponentGetModuleEntry ==
    /\ ProvidersReady
    /\ \E sp \in Specifiers :
        Answered("component", "getModuleEntry", sp,
                 ComponentGetModuleEntry(moduleMap[1].map, disk, baseAnswer, sp))

CallLabelGetModuleEntry ==
    /\ ProvidersReady
    /\ \E sp \in Specifiers :
        Answered("label", "getModuleEntry", sp,
                 LabelGetModuleEntry(customLabelsMap[1].map, sp))

CallLabelGetModule ==
    /\ ProvidersReady
    /\ \E sp \in Specifiers :
        Answered("label", "getModule", sp, LabelGetModule(customLabelsMap[1].map, sp))

CallResourceGetModuleEntry ==
    /\ ProvidersReady
    /\ \E sp \in Specifiers :
        Answered("resource", "getModuleEntry", sp, ResourceGetModuleEntry(sp))

\* process.env.ROOT_DIR is the project directory
CallResourceGetModule ==
    /\ ProvidersReady
    /\ \E sp \in Specifiers :
        Answered("resource", "getModule", sp,
                 ResourceGetModule(disk, resourceGlobThrows, cwd, projectDir, sp))

\* the promise a resolver returned has settled and the host has taken the answer
HostTakesAnswer ==
    /\ request # NoRequest
    /\ request' = NoRequest
    /\ response' = Undefined
    /\ UNCHANGED <<cfgVars, srvVars, againVars, prevVars, envVars, reqVars, projVars, moduleMap, customLabelsMap>>

NextResolve ==
    \/ HostTakesAnswer
    \/ ConstructComponentProvider
    \/ ConstructLabelProvider
    \/ CallComponentGetModuleEntry
    \/ CallLabelGetModuleEntry
    \/ CallLabelGetModule
    \/ CallResourceGetModuleEntry
    \/ CallResourceGetModule

SpecResolve == InitResolve /\ [][NextResolve]_vars

----------------------------------------------------------------------------
(* The preview command: Preview.run, validateInputParameters, launchPreview *)

\* String.prototype.trim; a blank is the piece " "
RECURSIVE TrimStart(_)
TrimStart(s) == IF s # <<>> /\ Head(s) = " " THEN TrimStart(Tail(s)) ELSE s

RECURSIVE TrimEnd(_)
TrimEnd(s) == IF s # <<>> /\ s[Len(s)] = " " THEN TrimEnd(SubSeq(s, 1, Len(s) - 1)) ELSE s

Trim(s) == TrimEnd(TrimStart(s))

\* the helpers of the core library, by what their names and uses say
platformFlagIsDesktop(flag) == Trim(flag) = <<"desktop">>
platformFlagIsIOS(flag) == Trim(flag) = <<"ios">>
isTargetingBrowser(targetApp) == Trim(targetApp) = <<"browser">>

\* configFileName.length > 0 && fs.existsSync(this.configFilePath)
hasConfigFile(flags, onDisk) == Len(Trim(flags.configfile)) > 0 /\ onDisk.exists

\* validateInputParameters: the error it rejects with, "none" when it resolves
ValidationError(flags, onDisk) ==
    LET browser == isTargetingBrowser(flags.targetapp)
        config == hasConfigFile(flags, onDisk)
    IN  IF platformFlagIsDesktop(flags.target) /\ ~browser
        THEN "error:invalidTargetAppForDesktop"
        ELSE IF Len(Trim(flags.componentname)) = 0
        THEN "error:invalidComponentNameFlagsDescription"
        ELSE IF ~browser /\ ~config
        THEN "error:invalidConfigFile:missingDescription"
        ELSE IF ~browser /\ config /\ ~onDisk.schemaPassed
        THEN "error:invalidConfigFile:genericDescription"
        ELSE IF ~browser /\ config /\ ~onDisk.hasAppConfig
        THEN "error:invalidConfigFile:missingAppConfigDescription"
        ELSE "none"

\* this.appConfig once validation has passed
ValidatedAppConfig(flags) ==
    IF isTargetingBrowser(flags.targetapp) THEN None
    ELSE Some([platform |-> flags.platform, app |-> Trim(flags.targetapp)])

RunRejected(error) == [state |-> "rejected", error |-> error]
RunResolved == [state |-> "resolved", error |-> "none"]

\* the ports startLwrServer may resolve with, as strings
ServerPorts == {NumToStr(DEFAULT_SERVER_PORT), NumToStr(DEFAULT_SERVER_PORT + 2)}

\* what the .then callback of launchDesktop / launchIOS / launchAndroid calls
LaunchFor(flags, serverPort) ==
    IF platformFlagIsDesktop(flags.platform)
    THEN [launcher |-> "desktopBrowser", componentName |-> Trim(flags.componentname),
          port |-> <<"http://localhost:">> \o serverPort]
    ELSE IF platformFlagIsIOS(flags.platform)
    THEN [launcher |-> "ios", componentName |-> Trim(flags.componentname),
          port |-> serverPort]
    ELSE [launcher |-> "android", componentName |-> Trim(flags.componentname),
          port |-> serverPort]

PreviewFlags ==
    [platform : {<<"desktop">>, <<"ios">>, <<"android">>},
     target : {<<"sfdxdebug">>, <<"desktop">>},
     componentname : {<<>>, <<" ">>, <<"compname">>},
     configfile : {<<>>, <<"myConfig", ".", "json">>},
     targetapp : {<<"browser">>, <<"com.salesforce.test">>},
     confighelp : BOOLEAN]

\* no config file, one the schema rejects, one without a matching app
\* configuration, and a good one
ConfigFiles ==
    {[exists |-> FALSE, schemaPassed |-> FALSE, hasAppConfig |-> FALSE],
     [exists |-> TRUE, schemaPassed |-> FALSE, hasAppConfig |-> FALSE],
     [exists |-> TRUE, schemaPassed |-> TRUE, hasAppConfig |-> FALSE],
     [exists |-> TRUE, schemaPassed |-> TRUE, hasAppConfig |-> TRUE]}

InitPreview ==
    /\ flagValues \in PreviewFlags
    /\ configOnDisk \in ConfigFiles
    /\ PreviewNotRun
    /\ projectDir = TypicalProject
    /\ componentName = TypicalComponent
    /\ cwd = <<sep, "home">>
    /\ dateNow = 7
    /\ fileResult = None
    /\ probes = <<"blank">>
    /\ serverTimeoutMinutes = 1
    /\ ResultsInit
    /\ ServerInit
    /\ AgainIdle
    /\ ResIdle
    /\ EnvIdle
    /\ ReqIdle

PreviewFrame ==
    UNCHANGED <<cfgVars, srvVars, againVars, resVars, envVars, reqVars, flagValues, configOnDisk>>

\* run() line 113: this.validateInputParameters()
ValidateInputParameters ==
    /\ ppc = "start"
    /\ IF ValidationError(flagValues, configOnDisk) = "none"
       THEN /\ ppc' = "validated"
            /\ appConfig' = ValidatedAppConfig(flagValues)
            /\ UNCHANGED runPromise
       ELSE /\ ppc' = "done"
            /\ runPromise' = RunRejected(ValidationError(flagValues, configOnDisk))
            /\ UNCHANGED appConfig
    /\ UNCHANGED <<setup, serverCall, launches>>
    /\ PreviewFrame

\* run() lines 115-120: --confighelp prints the help and resolves
ShowConfigHelp ==
    /\ ppc = "validated" /\ flagValues.confighelp
    /\ ppc' = "done"
    /\ runPromise' = RunResolved
    /\ UNCHANGED <<appConfig, setup, serverCall, launches>>
    /\ PreviewFrame

\* a slip: the preview goes on although the requirements are not met
ExecuteRequirementsIgnoresFailure ==
    /\ ppc = "validated" /\ ~flagValues.confighelp
    /\ \E met \in BOOLEAN :
        /\ setup' = IF met THEN "passed" ELSE "failed"
        /\ ppc' = "setupDone"
        /\ UNCHANGED runPromise
    /\ UNCHANGED <<appConfig, serverCall, launches>>
    /\ PreviewFrame

\* run() lines 122-130: RequirementProcessor.execute(this.commandRequirements)
ExecuteRequirements ==
    /\ ppc = "validated" /\ ~flagValues.confighelp
    /\ \E met \in BOOLEAN :
        /\ setup' = IF met THEN "passed" ELSE "failed"
        /\ IF met THEN ppc' = "setupDone" /\ UNCHANGED runPromise
           ELSE ppc' = "done" /\ runPromise' = RunRejected("setup")
    /\ UNCHANGED <<appConfig, serverCall, launches>>
    /\ PreviewFrame

\* launchPreview lines 267-286: getAppBundlePath throws
AppBundleFails ==
    /\ ppc = "setupDone"
    /\ ~isTargetingBrowser(Trim(flagValues.targetapp)) /\ appConfig # None
    /\ ppc' = "done"
    /\ runPromise' = RunRejected("appBundle")
    /\ UNCHANGED <<appConfig, setup, serverCall, launches>>
    /\ PreviewFrame

\* a slip: the launcher is invoked at once, with the default port
LaunchPreviewBeforeServer ==
    /\ ppc = "setupDone"
    /\ serverCall' = [state |-> "pending", port |-> <<>>]
    /\ launches' = Append(launches, LaunchFor(flagValues, NumToStr(DEFAULT_SERVER_PORT)))
    /\ ppc' = "awaitingServer"
    /\ UNCHANGED <<appConfig, setup, runPromise>>
    /\ PreviewFrame

\* launchPreview lines 288-314 and the first half of launchDesktop / launchIOS /
\* launchAndroid: LwrServerUtils.startLwrServer(componentName, projectDir)
LaunchPreview ==
    /\ ppc = "setupDone"
    /\ serverCall' = [state |-> "pending", port |-> <<>>]
    /\ ppc' = "awaitingServer"
    /\ UNCHANGED <<appConfig, setup, runPromise, launches>>
    /\ PreviewFrame

\* the promise of startLwrServer resolves with the port
StartLwrServerResolves ==
    /\ ppc = "awaitingServer" /\ serverCall.state = "pending"
    /\ \E port \in ServerPorts : serverCall' = [state |-> "resolved", port |-> port]
    /\ ppc' = "serverUp"
    /\ UNCHANGED <<appConfig, setup, runPromise, launches>>
    /\ PreviewFrame

\* the promise of startLwrServer rejects; the rejection passes through .then
StartLwrServerRejects ==
    /\ ppc = "awaitingServer" /\ serverCall.state = "pending"
    /\ serverCall' = [state |-> "rejected", port |-> <<>>]
    /\ ppc' = "done"
    /\ runPromise' = RunRejected("server")
    /\ UNCHANGED <<appConfig, setup, launches>>
    /\ PreviewFrame

\* the .then callback: (serverPort) => launcher.launchPreview(..., serverPort, true)
InvokeLauncher ==
    /\ ppc = "serverUp"
    /\ launches' = Append(launches, LaunchFor(flagValues, serverCall.port))
    /\ ppc' = "awaitingLauncher"
    /\ UNCHANGED <<appConfig, setup, runPromise, serverCall>>
    /\ PreviewFrame

\* the launcher's promise settles, and with it the promise of run()
LauncherSettles ==
    /\ ppc = "awaitingLauncher"
    /\ \E ok \in BOOLEAN : runPromise' = IF ok THEN RunResolved ELSE RunRejected("launch")
    /\ ppc' = "done"
    /\ UNCHANGED <<appConfig, setup, serverCall, launches>>
    /\ PreviewFrame

NextPreview ==
    \/ ValidateInputParameters
    \/ ShowConfigHelp
    \/ ExecuteRequirements
    \/ AppBundleFails
    \/ LaunchPreview
    \/ StartLwrServerResolves
    \/ StartLwrServerRejects
    \/ InvokeLauncher
    \/ LauncherSettles

SpecPreview == InitPreview /\ [][NextPreview]_vars

----------------------------------------------------------------------------
(* LwrServerUtils.startLwrServer, the variant that hands its results to     *)
(* the server application in process.env and then starts it                 *)

DEFAULT_SERVER_IDLE_TIMEOUT_MINUTES == 15

\* the argument values of serverIdleTimeoutMinutes: omitted, or a number of minutes
IdleTimeoutArgs == OptOf({1, 30})

\* serverIdleTimeoutMinutes: number = DEFAULT_SERVER_IDLE_TIMEOUT_MINUTES
IdleTimeoutOf(arg) == IF arg = None THEN DEFAULT_SERVER_IDLE_TIMEOUT_MINUTES ELSE arg[1]

rootCompDashed(c, pDir, cName) == ReplaceAllTok(rootComp(c, pDir, cName), "/", "-")

\* every component reference against a few project directories
InitEnvPathSweep ==
    /\ projectDir \in {TypicalProject, <<sep>>, <<"proj">>}
    /\ componentName \in ComponentNames
    /\ cwd = <<sep, "home">>
    /\ probes = <<"blank">>
    /\ serverIdleTimeoutMinutes = None

\* every timeout argument against every run of probe answers
InitEnvPortSweep ==
    /\ projectDir = TypicalProject
    /\ componentName = TypicalComponent
    /\ cwd \in Cwds
    /\ probes \in ProbeRuns
    /\ serverIdleTimeoutMinutes \in IdleTimeoutArgs

InitEnv ==
    /\ InitEnvPathSweep \/ InitEnvPortSweep
    /\ EnvNotRun
    /\ dateNow = 7
    /\ fileResult = None
    /\ serverTimeoutMinutes = 1
    /\ ResultsInit
    /\ ServerInit
    /\ AgainIdle
    /\ ResIdle
    /\ PrevIdle
    /\ ReqIdle

EnvFrame ==
    UNCHANGED <<cfgVars, srvVars, againVars, resVars, prevVars, reqVars,
                serverIdleTimeoutMinutes>>

\* process.env.NAME = value, and on to the next statement
SetEnv(name, value, next) ==
    /\ processEnv' = [processEnv EXCEPT ![name] = Some(value)]
    /\ epc' = next
    /\ UNCHANGED <<previewLogger, appStarted>>
    /\ EnvFrame

\* previewLogger = logger
SetPreviewLogger ==
    /\ epc = "previewLogger"
    /\ previewLogger' = Some("logger")
    /\ epc' = "ROOT_DIR"
    /\ UNCHANGED <<processEnv, appStarted>>
    /\ EnvFrame

SetRootDir ==
    /\ epc = "ROOT_DIR"
    /\ SetEnv("ROOT_DIR", rootDirectory(cwd, projectDir), "MODULES_DIR")

SetModulesDir ==
    /\ epc = "MODULES_DIR"
    /\ SetEnv("MODULES_DIR", twoLevelUp(cwd, projectDir, componentName), "ROOT_COMPONENT")

SetRootComponent ==
    /\ epc = "ROOT_COMPONENT"
    /\ SetEnv("ROOT_COMPONENT", rootCompDashed(cwd, projectDir, componentName), "SERVICE_WORKER")

SetServiceWorker ==
    /\ epc = "SERVICE_WORKER"
    /\ SetEnv("SERVICE_WORKER", <<"true">>, "BEHIND_PROXY")

SetBehindProxy ==
    /\ epc = "BEHIND_PROXY"
    /\ SetEnv("BEHIND_PROXY", <<"true">>, "MODE")

SetMode ==
    /\ epc = "MODE"
    /\ SetEnv("MODE", <<"dev">>, "SERVER_IDLE_TIMEOUT_MINUTES")

SetServerIdleTimeoutMinutes ==
    /\ epc = "SERVER_IDLE_TIMEOUT_MINUTES"
    /\ SetEnv("SERVER_IDLE_TIMEOUT_MINUTES",
              NumToStr(IdleTimeoutOf(serverIdleTimeoutMinutes)), "SERVER_PORT")

\* a slip: the statement is passed without the port being probed and stored
SetServerPortSkipped ==
    /\ epc = "SERVER_PORT"
    /\ epc' = "doStartLwrApp"
    /\ UNCHANGED <<previewLogger, processEnv, appStarted>>
    /\ EnvFrame

\* the probe loop has to come back before the assignment happens
SetServerPort ==
    /\ epc = "SERVER_PORT"
    /\ getNextAvailablePort(probes).returned
    /\ SetEnv("SERVER_PORT", NumToStr(getNextAvailablePort(probes).port), "doStartLwrApp")

\* logger.debug(...) writes the values out; return LwrServerUtils.doStartLwrApp()
CallDoStartLwrApp ==
    /\ epc = "doStartLwrApp"
    /\ appStarted' = TRUE
    /\ epc' = "done"
    /\ UNCHANGED <<previewLogger, processEnv>>
    /\ EnvFrame

NextEnv ==
    \/ SetPreviewLogger
    \/ SetRootDir
    \/ SetModulesDir
    \/ SetRootComponent
    \/ SetServiceWorker
    \/ SetBehindProxy
    \/ SetMode
    \/ SetServerIdleTimeoutMinutes
    \/ SetServerPort
    \/ CallDoStartLwrApp

SpecEnv == InitEnv /\ [][NextEnv]_vars

----------------------------------------------------------------------------
(* BaseSetup.executeSetup and WrappedPromise *)

\* what the promise of a check does: it fulfills, it rejects, or it never settles
CheckOutcomes == {"fulfilled", "rejected", "never"}

RequirementTitles == <<<<"R1">>, <<"R2">>, <<"R3">>, <<"R4">>>>

\* the requirement lists: the i-th has the i-th title
RequirementLists ==
    {[i \in 1..Len(o) |-> [title |-> RequirementTitles[i], check |-> o[i]]] :
        o \in SeqsUpTo(CheckOutcomes, MaxRequirements) \ {<<>>}}

\* a slip: the promise of the check is handed on as it is
WrappedPromiseBare(outcome) == [promise |-> outcome, status |-> outcome]

\* promise.then(v => ({status: 'fulfilled', ...})).catch(e => ({status: 'rejected', ...})):
\* the wrapper fulfills either way, with the outcome in the status field
WrappedPromise(outcome) == [promise |-> "fulfilled", status |-> outcome]

\* results.forEach(...) of executeSetup: one test case per fulfilled or rejected result
RECURSIVE CollectTests(_, _, _)
CollectTests(testResult, reqs, results) ==
    IF results = <<>> THEN testResult
    ELSE LET result == Head(results)
             test == [title |-> Head(reqs).title, hasPassed |-> result.status = "fulfilled"]
         IN  CollectTests(
                 IF result.status = "fulfilled"
                 THEN [testResult EXCEPT !.tests = Append(@, test)]
                 ELSE IF result.status = "rejected"
                 THEN [hasMetAllRequirements |-> FALSE, tests |-> Append(testResult.tests, test)]
                 ELSE testResult,
                 Tail(reqs), Tail(results))

InitSetup ==
    /\ requirements \in RequirementLists
    /\ SetupNotRun
    /\ projectDir = TypicalProject
    /\ componentName = TypicalComponent
    /\ cwd = <<sep, "home">>
    /\ dateNow = 7
    /\ fileResult = None
    /\ probes = <<"blank">>
    /\ serverTimeoutMinutes = 1
    /\ ResultsInit
    /\ ServerInit
    /\ AgainIdle
    /\ ResIdle
    /\ PrevIdle
    /\ EnvIdle

SetupFrame == UNCHANGED <<cfgVars, srvVars, againVars, resVars, prevVars, envVars, requirements>>

\* executeSetup: requirements.forEach calls WrappedPromise, which calls the
\* check, for every requirement before anything can settle
CallExecuteSetup ==
    /\ setupPromise.state = "none"
    /\ wrapped' = [i \in 1..Len(requirements) |-> [promise |-> "pending", status |-> "none"]]
    /\ setupPromise' = [state |-> "pending", value |-> <<>>]
    /\ UNCHANGED settled
    /\ SetupFrame

\* the check of one requirement settles, and with it the promise wrapped around it
CheckSettles ==
    /\ \E i \in 1..Len(requirements) :
        /\ wrapped[i].promise = "pending"
        /\ requirements[i].check # "never"
        /\ wrapped' = [wrapped EXCEPT ![i] = WrappedPromise(requirements[i].check)]
        /\ settled' = Append(settled, i)
    /\ UNCHANGED setupPromise
    /\ SetupFrame

\* Promise.all(allPromises).then(...): rejects with the first rejection among
\* its promises, fulfills when all of them have fulfilled
PromiseAllSettles ==
    /\ setupPromise.state = "pending"
    /\ IF \E i \in 1..Len(wrapped) : wrapped[i].promise = "rejected"
       THEN setupPromise' = [state |-> "rejected", value |-> <<>>]
       ELSE /\ \A i \in 1..Len(wrapped) : wrapped[i].promise = "fulfilled"
            /\ setupPromise' =
                   [state |-> "fulfilled",
                    value |-> <<CollectTests([hasMetAllRequirements |-> TRUE, tests |-> <<>>],
                                             requirements, wrapped)>>]
    /\ UNCHANGED <<wrapped, settled>>
    /\ SetupFrame

NextSetup == CallExecuteSetup \/ CheckSettles \/ PromiseAllSettles

SpecSetup == InitSetup /\ [][NextSetup]_vars

----------------------------------------------------------------------------
(* C11: two calls of getMergedLwrConfig on the same inputs *)

\* the route id with the text of the timestamp cut off its end
IdWithoutStamp(id, ts) ==
    IF Len(id) >= Len(NumToStr(ts)) /\ IsPrefixAt(id, NumToStr(ts), Len(id) - Len(NumToStr(ts)) + 1)
    THEN SubSeq(id, 1, Len(id) - Len(NumToStr(ts)))
    ELSE id

\* equal in every field; the routes equal in path and rootComponent, in count,
\* and in id once the timestamp is cut off
SameButStamp(a, tsA, b, tsB) ==
    /\ a.serverMode = b.serverMode
    /\ a.port = b.port
    /\ a.rootDir = b.rootDir
    /\ a.cacheDir = b.cacheDir
    /\ a.lwc = b.lwc
    /\ a.moduleProviders = b.moduleProviders
    /\ Len(a.moduleProviders[1]) = Len(b.moduleProviders[1])
    /\ Len(a.routes[1]) = 1 /\ Len(b.routes[1]) = 1
    /\ a.routes[1][1].path = b.routes[1][1].path
    /\ a.routes[1][1].rootComponent = b.routes[1][1].rootComponent
    /\ IdWithoutStamp(a.routes[1][1].id, tsA) = IdWithoutStamp(b.routes[1][1].id, tsB)

----------------------------------------------------------------------------
(* C20: the server mode of the effective configuration *)

\* C20: in every effective configuration produced by getMergedLwrConfig, for
\* every user configuration, serverMode is the development mode 'dev'.
C20_ServerModeDev ==
    lwrConfig # None => lwrConfig[1].serverMode = Some(<<"dev">>)

\* C20 (amended): serverMode is 'dev' whenever the user configuration has no
\* serverMode or an empty one; a non-empty serverMode of the user is kept.
C20_ServerModeDevByDefault ==
    lwrConfig # None =>
        LET user == LoadedConfig(fileResult)
        IN  /\ ~TruthyStr(user.serverMode) => lwrConfig[1].serverMode = Some(<<"dev">>)
            /\ TruthyStr(user.serverMode) => lwrConfig[1].serverMode = user.serverMode

\* a user configuration asking for another mode has been merged
C20_Witness ==
    /\ lwrConfig # None /\ fileResult # None
    /\ fileResult[1].serverMode = Some(<<"prod">>)
    /\ lwrConfig[1].serverMode = Some(<<"prod">>)

----------------------------------------------------------------------------
(* C12: the component resolver on a bare component reference *)

ComponentMap == moduleMap[1].map

OnDisk(file) == \E i \in 1..Len(disk) : disk[i] = file

\* the last call was getModuleEntry of the component resolver for 'c/<name>',
\* without fragment or extension, <name> a key of the Component Map
BareComponentCall ==
    /\ request.resolver = "component"
    /\ StartsWith(request.specifier, nestedModulesNamespace)
    /\ \A i \in 1..Len(request.specifier) : request.specifier[i] \notin {"#", "."}
    /\ MapHas(ComponentMap, SubSeq(request.specifier, 3, Len(request.specifier)))

CalledName == SubSeq(request.specifier, 3, Len(request.specifier))

\* <component directory>/<name><ext> exists
ComponentFileExists(ext) ==
    OnDisk(MapGet(ComponentMap, CalledName)[1] \o <<sep>> \o CalledName \o ext)

\* C12: for every specifier 'c/name' with no fragment and no extension whose
\* name is in the Component Map, getModuleEntry of the component resolver
\* yields an entry path ending in '.js' when a script file exists in the
\* component directory, ending in '.css' when only a stylesheet exists, and
\* defers (produces no entry of its own) when neither exists.
C12_EntryByProbe ==
    BareComponentCall =>
        /\ ComponentFileExists(<<".", "js">>)
            => response.own /\ EndsWith(response.answer.entry, <<".", "js">>)
        /\ (~ComponentFileExists(<<".", "js">>) /\ ComponentFileExists(<<".", "css">>))
            => response.own /\ EndsWith(response.answer.entry, <<".", "css">>)
        /\ (~ComponentFileExists(<<".", "js">>) /\ ~ComponentFileExists(<<".", "css">>))
            => ~response.own

\* what does hold: the extension follows the probe where a file exists, and
\* with neither file the resolver still answers, with the bare name
EntryFollowsProbe ==
    BareComponentCall =>
        /\ response.own
        /\ response.answer.entry =
             MapGet(ComponentMap, CalledName)[1] \o <<sep>> \o CalledName
             \o (IF ComponentFileExists(<<".", "js">>) THEN <<".", "js">>
                 ELSE IF ComponentFileExists(<<".", "css">>) THEN <<".", "css">>
                 ELSE <<>>)

----------------------------------------------------------------------------
(* C13: the label resolver *)

LabelMap == customLabelsMap[1].map

\* the last call went to the label resolver, for '@salesforce/label/c.<name>'
LabelCall ==
    /\ request.resolver = "label"
    /\ StartsWith(request.specifier, LABEL_PREFIX \o <<"c", ".">>)
    /\ Len(request.specifier) = Len(LABEL_PREFIX) + 3

CalledLabel == request.specifier[Len(LABEL_PREFIX) + 3]

\* the documents of the Label Map with a label of that fullName
DocsNaming(name) ==
    {i \in 1..Len(LabelMap) :
        \E k \in 1..Len(LabelMap[i][2].labels) : LabelMap[i][2].labels[k].fullName = <<name>>}

ValueIn(i, name) == FirstLabelNamed(LabelMap[i][2].labels, <<name>>)[1].value

\* C13: for every label specifier '@salesforce/label/c.someLabel': if someLabel
\* is the fullName of a label in exactly one document of the Label Map,
\* getModule returns a virtual module whose source is a single default export
\* of the string equal to that label's value (for every value, the empty
\* string included) and whose ownHash is the hash of that source; if someLabel
\* is in no document, getModuleEntry and getModule both return undefined.
C13_LabelResolution ==
    LabelCall =>
        /\ (Cardinality(DocsNaming(CalledLabel)) = 1 /\ request.op = "getModule") =>
              /\ response.kind = "module"
              /\ response.moduleEntry.virtual
              /\ \A i \in DocsNaming(CalledLabel) :
                    response.originalSource = DefaultExportOf(ValueIn(i, CalledLabel))
              /\ response.ownHash = hashContent(response.originalSource)
        /\ DocsNaming(CalledLabel) = {} => response = Undefined

\* what does hold: the same, for a non-empty value and a Label Map in which
\* every document has labels
EveryDocHasLabels ==
    \A i \in 1..Len(LabelMap) : LabelMap[i][2].shape \in {"array", "object"}

LabelResolutionOfNonEmpty ==
    (LabelCall /\ EveryDocHasLabels) =>
        /\ (Cardinality(DocsNaming(CalledLabel)) = 1 /\ request.op = "getModule"
            /\ \A i \in DocsNaming(CalledLabel) : ValueIn(i, CalledLabel) # <<>>) =>
              /\ response.kind = "module"
              /\ response.moduleEntry.virtual
              /\ \A i \in DocsNaming(CalledLabel) :
                    response.originalSource = DefaultExportOf(ValueIn(i, CalledLabel))
              /\ response.ownHash = hashContent(response.originalSource)
        /\ DocsNaming(CalledLabel) = {} => response = Undefined

----------------------------------------------------------------------------
(* C14: the resource resolver *)

\* the last call was getModule of the resource resolver, for a specifier with
\* one of its two prefixes
ResourceCall ==
    /\ request.resolver = "resource" /\ request.op = "getModule"
    /\ \/ StartsWith(request.specifier, RESOURCE_URL_PREFIX)
       \/ StartsWith(request.specifier, CONTENT_ASSET_URL_PREFIX)

\* the third path segment of the specifier up to its first "."
CalledResource == SplitOn(SplitOn(request.specifier, sep)[3], ".")[1]

CalledFolder ==
    IF StartsWith(request.specifier, CONTENT_ASSET_URL_PREFIX) THEN ContentAssetsFolder
    ELSE StaticResourcesFolder

\* file is <dir>/<base>.<rest> and not a sidecar <base>.resource-meta.<rest>
\* or <base>.asset-meta.<rest>
IsResourceFileOf(file, dir, base) ==
    /\ PathParseDir(file) = dir
    /\ StartsWith(PathBasename(file), base \o <<".">>)
    /\ ~\E meta \in {"resource-meta", "asset-meta"} :
            StartsWith(PathBasename(file), base \o <<".", meta, ".">>)

ExtensionOfFirst(dir, base) ==
    LET found == SelectSeq(disk, LAMBDA f : IsResourceFileOf(f, dir, base))
    IN  IF found = <<>> THEN <<>> ELSE PathExtname(found[1])

ExportsPath(text) ==
    /\ response.kind = "module"
    /\ response.originalSource = DefaultExportOf(text)

----------------------------------------------------------------------------
(* C15: the Component Locator *)

ManifestUnusable == manifest \in {"missing", "unreadable", "invalid"}

\* the call returned (it did not raise), and with an empty map when the
\* manifest could not be read or parsed
ReturnedMap(result) ==
    /\ ~result.raised
    /\ ManifestUnusable => result.map = <<>>

\* C15: the Component Locator never raises: for every state of the project
\* directory (manifest missing, unreadable, not valid JSON, without a
\* packageDirectories list, or a failing glob) generateSfdxComponentsMap and
\* generateSfdxLabelComponentsMap return a map, which is empty whenever the
\* manifest cannot be read or parsed.
C15_LocatorNeverRaises ==
    /\ moduleMap # None => ReturnedMap(moduleMap[1])
    /\ customLabelsMap # None => ReturnedMap(customLabelsMap[1])

\* both scans have run on a project whose manifest is not valid JSON, and on
\* one whose glob fails
C15_Witness ==
    /\ moduleMap # None /\ customLabelsMap # None
    /\ manifest = "invalid" \/ (manifest = "ok" /\ componentGlob.throws /\ labelGlob.throws)
    /\ moduleMap[1].map = <<>> /\ customLabelsMap[1].map = <<>>

----------------------------------------------------------------------------
(* C18: specifiers of another namespace *)

\* the part of the specifier before '#', without the leading 'c/'
BaseNameOf(specifier) ==
    SubSeq(SplitOn(specifier, "#")[1], 3, Len(SplitOn(specifier, "#")[1]))

ForeignToComponents(specifier) ==
    \/ ~StartsWith(specifier, <<"c", sep>>)
    \/ ~MapHas(ComponentMap, BaseNameOf(specifier))

\* C18: for every specifier whose namespace prefix a resolver does not
\* recognise, that resolver synthesises nothing: the label and the resource
\* resolver return undefined from getModuleEntry and from getModule, and the
\* component resolver (specifier not starting with 'c/', or base name not in
\* the Component Map) returns exactly the answer of the wrapped base provider.
C18_ForeignSpecifiers ==
    /\ (request.resolver = "label" /\ ~StartsWith(request.specifier, LABEL_PREFIX))
          => response = Undefined
    /\ (request.resolver = "resource"
        /\ ~StartsWith(request.specifier, RESOURCE_URL_PREFIX)
        /\ ~StartsWith(request.specifier, CONTENT_ASSET_URL_PREFIX))
          => response = Undefined
    /\ (request.resolver = "component" /\ ForeignToComponents(request.specifier))
          => ~response.own /\ response.answer = baseAnswer

\* the component resolver has passed on the base provider's entry for a
\* specifier of another namespace
C18_Witness ==
    /\ request.resolver = "component"
    /\ request.specifier = <<"lightning", sep, "button">>
    /\ baseAnswer = BaseEntry
    /\ response = [own |-> FALSE, answer |-> BaseEntry]

----------------------------------------------------------------------------
(* C16, C17: the preview command, the server and the launcher *)

NonBrowserApp == Trim(flagValues.targetapp) # <<"browser">>

\* the inputs validation rejects: an empty component name, or a target app
\* other than the browser with a missing config file, one the schema rejects,
\* or one without a matching app configuration
InvalidInput ==
    \/ Trim(flagValues.componentname) = <<>>
    \/ /\ NonBrowserApp
       /\ \/ flagValues.configfile = <<>>
          \/ ~configOnDisk.exists
          \/ ~configOnDisk.schemaPassed
          \/ ~configOnDisk.hasAppConfig

ValidationErrors ==
    {"error:invalidTargetAppForDesktop", "error:invalidComponentNameFlagsDescription",
     "error:invalidConfigFile:missingDescription", "error:invalidConfigFile:genericDescription",
     "error:invalidConfigFile:missingAppConfigDescription"}

NothingStarted == serverCall.state = "none" /\ launches = <<>>

\* C16: in every run of the preview command, startLwrServer is never invoked
\* when input validation rejects or when the requirements check rejects: the
\* promise of the command rejects with that error, no server is started and
\* no launcher is invoked.
C16_NoServerAfterRejection ==
    /\ (InvalidInput /\ ppc # "start") =>
          /\ NothingStarted
          /\ runPromise.state = "rejected" /\ runPromise.error \in ValidationErrors
    /\ setup = "failed" =>
          /\ NothingStarted
          /\ runPromise = RunRejected("setup")

\* the run is over, rejected by validation in one run and by the requirements
\* in another
C16_Witness ==
    /\ ppc = "done" /\ NothingStarted
    /\ \/ InvalidInput /\ runPromise.error = "error:invalidConfigFile:genericDescription"
       \/ setup = "failed" /\ runPromise.error = "setup"

\* C17: the launcher (iOS, Android, desktop browser) is invoked only after
\* startLwrServer has resolved with its port, it receives exactly that port,
\* and it is never invoked if startLwrServer rejects.
C17_LauncherAfterServer ==
    /\ launches # <<>> =>
          /\ serverCall.state = "resolved"
          /\ Len(launches) = 1
          /\ launches[1].port = (IF launches[1].launcher = "desktopBrowser"
                                 THEN <<"http://localhost:">> \o serverCall.port
                                 ELSE serverCall.port)
    /\ serverCall.state = "rejected" => launches = <<>>

\* the iOS launcher has been handed the port 3002 the server resolved with
C17_Witness ==
    /\ launches # <<>>
    /\ launches[1].launcher = "ios"
    /\ serverCall = [state |-> "resolved", port |-> <<"3", "0", "0", "2">>]
    /\ launches[1].port = <<"3", "0", "0", "2">>

----------------------------------------------------------------------------
(* C19: the environment is complete before the server application starts *)

EnvSet(name) == processEnv[name] # None

\* the value of every variable, as the call's arguments determine it
EnvComplete ==
    /\ processEnv["ROOT_DIR"] = Some(Resolve(cwd, projectDir))
    /\ processEnv["MODULES_DIR"] = Some(twoLevelUp(cwd, projectDir, componentName))
    /\ processEnv["ROOT_COMPONENT"] =
           Some(ReplaceAllTok(rootComp(cwd, projectDir, componentName), "/", "-"))
    /\ processEnv["SERVICE_WORKER"] = Some(<<"true">>)
    /\ processEnv["BEHIND_PROXY"] = Some(<<"true">>)
    /\ processEnv["MODE"] = Some(<<"dev">>)
    /\ processEnv["SERVER_IDLE_TIMEOUT_MINUTES"] =
           Some(NumToStr(IF serverIdleTimeoutMinutes = None THEN 15
                         ELSE serverIdleTimeoutMinutes[1]))
    /\ EnvSet("SERVER_PORT")
    /\ processEnv["SERVER_PORT"] = Some(NumToStr(getNextAvailablePort(probes).port))
    /\ ParseInt(processEnv["SERVER_PORT"][1]) >= 3000

\* C19: once doStartLwrApp has been invoked, ROOT_DIR holds the resolved project
\* directory, MODULES_DIR the directory two levels above the component,
\* ROOT_COMPONENT the dashed root component id, SERVICE_WORKER and BEHIND_PROXY
\* 'true', MODE 'dev', SERVER_IDLE_TIMEOUT_MINUTES the given timeout or 15 when
\* it was omitted, and SERVER_PORT the probed port, which is at least 3000; and
\* no variable is set while the logger slot is still empty.
C19_EnvBeforeStart ==
    /\ appStarted => EnvComplete
    /\ (\E n \in EnvNames : EnvSet(n)) => previewLogger = Some("logger")

\* the application was started with the timeout omitted after a busy first port
C19_Witness ==
    /\ appStarted
    /\ serverIdleTimeoutMinutes = None
    /\ processEnv["SERVER_IDLE_TIMEOUT_MINUTES"] = Some(<<"1", "5">>)
    /\ processEnv["SERVER_PORT"] = Some(<<"3", "0", "0", "2">>)

----------------------------------------------------------------------------
(* C21: the order of the probes and the end of the loop *)

ReportedFree(answer) == answer \in {"blank", "raised"}

\* C21: getNextAvailablePort probes the candidates 3000, 3002, ... in strictly
\* increasing order and none of them twice; the loop ends exactly when a probed
\* candidate is reported free (blank output or a probe command that failed),
\* with that candidate as the result; while every probe reports its port in
\* use the loop has not ended and nothing has been returned or raised.
C21_ProbesIncreaseUntilFree ==
    LET t == ProbedPorts(probes)
        r == getNextAvailablePort(probes)
    IN  /\ \A i \in 1..Len(t) : t[i] = 3000 + 2 * (i - 1)
        /\ \A i, j \in 1..Len(t) : i < j => t[i] < t[j]
        /\ Len(t) <= Len(probes)
        /\ \A i \in 1..(Len(t) - 1) : probes[i] = "inuse"
        /\ r.returned <=> (\E i \in 1..Len(t) : ReportedFree(probes[i]))
        /\ r.returned => /\ ReportedFree(probes[Len(t)])
                         /\ r.port = t[Len(t)]
                         /\ r.probed = Len(t)
        /\ (\A i \in 1..Len(probes) : probes[i] = "inuse") =>
               /\ ~r.returned
               /\ Len(t) = Len(probes)
               /\ portResult = None
        /\ portResult # None => portResult[1] = r /\ r.returned

\* the loop ended at the second candidate; the third answer was never asked for
C21_Witness ==
    /\ portResult # None
    /\ probes = <<"inuse", "blank", "inuse">>
    /\ ProbedPorts(probes) = <<3000, 3002>>
    /\ portResult[1].port = 3002

----------------------------------------------------------------------------
(* C22: a config file that cannot be loaded *)

\* what getMergedLwrConfig returns for the file content {}
ConfigForEmptyFile ==
    getMergedLwrConfig(cwd, projectDir, componentName, Some(EmptyConfig), probes, dateNow)

\* C22: when loading lwr.config.json fails, getMergedLwrConfig returns whenever
\* the port probe does, and what it returns is the configuration it returns
\* for the file content {}: mode 'dev', the probed port, the resolved project
\* directory as root, no cache directory, one module record, the runtime's
\* providers behind the custom one, and one route.
C22_LoadFailureIsEmptyConfig ==
    fileResult = None =>
        /\ MergeReturns(fileResult, probes) <=> MergeReturns(Some(EmptyConfig), probes)
        /\ lwrConfig # None =>
            LET c == lwrConfig[1]
            IN  /\ c = ConfigForEmptyFile
                /\ c.serverMode = Some(<<"dev">>)
                /\ c.port = Some(getNextAvailablePort(probes).port)
                /\ c.rootDir = Some(Resolve(cwd, projectDir))
                /\ c.cacheDir = None
                /\ c.lwc # None /\ c.lwc[1].modules # None /\ Len(c.lwc[1].modules[1]) = 1
                /\ c.moduleProviders = Some(getModifiedModuleProviders)
                /\ c.routes # None /\ Len(c.routes[1]) = 1

\* the load failed in a project given by a relative directory, and the call returned
C22_Witness ==
    /\ fileResult = None
    /\ projectDir = <<"proj">>
    /\ lwrConfig # None
    /\ lwrConfig[1] = ConfigForEmptyFile

----------------------------------------------------------------------------
(* C23: a label name in more than one document *)

FirstDocNaming(name) == MinOf(DocsNaming(name))

\* the lookup the last call made
LookedUp == getLabelValueFromMap(LabelMap, request.specifier)

\* C23: when the called label is the fullName of a label in more than one
\* document of the Label Map, the lookup of the label resolver returns the
\* value of the first label of that name in the first such document, in
\* insertion order of the map.
C23_FirstDocumentWins ==
    (LabelCall /\ Cardinality(DocsNaming(CalledLabel)) > 1) =>
        /\ ~LookedUp.raised
        /\ response.kind # "rejected"
        /\ LookedUp.value = Some(ValueIn(FirstDocNaming(CalledLabel), CalledLabel))

\* what does hold: the same, when every document before the first match has
\* labels; the documents after it are not looked at, whatever their shape
FirstDocumentWinsBehindLabels ==
    (LabelCall /\ Cardinality(DocsNaming(CalledLabel)) > 1
     /\ \A i \in 1..(FirstDocNaming(CalledLabel) - 1) :
            LabelMap[i][2].shape \in {"array", "object"}) =>
        /\ ~LookedUp.raised
        /\ response.kind # "rejected"
        /\ LookedUp.value = Some(ValueIn(FirstDocNaming(CalledLabel), CalledLabel))

----------------------------------------------------------------------------
(* C24: label files that cannot be read or parsed *)

\* the path of a label file below the project directory
ProjectRelative(path) == SubSeq(path, Len(projectDir) + 2, Len(path))

\* the globbed label files that were read and parsed, in scan order
ParsedFiles == SelectSeq(labelGlob.files, LAMBDA f : f.state = "parsed")

LabelScanRan == customLabelsMap # None /\ manifest = "ok" /\ ~labelGlob.throws

\* C24: the scan of the label files does not raise, and the Label Map holds one
\* entry for every globbed file that could be read and parsed, under its
\* project-relative path and in scan order, whichever files before or after
\* it could not be read or parsed; those files have no entry.
C24_BadLabelFileSkippedAlone ==
    LabelScanRan =>
        /\ ~customLabelsMap[1].raised
        /\ Len(LabelMap) = Len(ParsedFiles)
        /\ \A i \in 1..Len(ParsedFiles) :
              /\ StartsWith(ParsedFiles[i].path, projectDir \o <<sep>>)
              /\ LabelMap[i] = <<ProjectRelative(ParsedFiles[i].path), ParsedFiles[i].doc>>

\* a malformed file between two good ones: both good ones are in the map
C24_Witness ==
    /\ LabelScanRan
    /\ Len(labelGlob.files) = 3
    /\ labelGlob.files[1].state = "parsed"
    /\ labelGlob.files[2].state = "malformed"
    /\ labelGlob.files[3].state = "parsed"
    /\ Len(LabelMap) = 2

----------------------------------------------------------------------------
(* C25: which scanned files make an entry of the Component Map *)

ComponentScanRan == moduleMap # None /\ manifest = "ok" /\ ~componentGlob.throws

\* the scanned files whose base name is the name of their directory
ComponentFiles ==
    {i \in 1..Len(componentGlob.files) :
        PathBasename(PathParseDir(componentGlob.files[i]))
            = ComponentOf(componentGlob.files[i]).name}

\* C25: the Component Map has the entry name -> directory if and only if the
\* scan found a file in that directory whose base name equals the name of the
\* directory; a file in a directory whose name only ends with the file's base
\* name (directory 'xfoo', file 'foo') makes no entry.
C25_EntryIffNameEqualsDirectory ==
    ComponentScanRan =>
        /\ \A e \in 1..Len(ComponentMap) :
              \E i \in ComponentFiles :
                  /\ ComponentMap[e][1] = ComponentOf(componentGlob.files[i]).name
                  /\ ComponentMap[e][2] = PathParseDir(componentGlob.files[i])
        /\ \A i \in ComponentFiles :
              MapHas(ComponentMap, ComponentOf(componentGlob.files[i]).name)

----------------------------------------------------------------------------
(* C26: the lookup maps after construction *)

\* the maps as the constructors build them from the project
BuiltComponentMap == generateSfdxComponentsMap(manifest, componentGlob).map
BuiltLabelMap == generateSfdxLabelComponentsMap(manifest, labelGlob, projectDir).map

\* what a resolver answers to a call, from the project alone
AnswerOf(req) ==
    IF req.resolver = "component"
    THEN ComponentGetModuleEntry(BuiltComponentMap, disk, baseAnswer, req.specifier)
    ELSE IF req.resolver = "label"
    THEN IF req.op = "getModuleEntry" THEN LabelGetModuleEntry(BuiltLabelMap, req.specifier)
         ELSE LabelGetModule(BuiltLabelMap, req.specifier)
    ELSE IF req.op = "getModuleEntry" THEN ResourceGetModuleEntry(req.specifier)
    ELSE ResourceGetModule(disk, resourceGlobThrows, cwd, projectDir, req.specifier)

\* C26: once built, the Component Map and the Label Map are changed by no step,
\* whichever resolver is called with whichever operation and specifier and
\* whatever was resolved before; and what a call answers is what the maps as
\* built answer for its specifier.
C26_MapsReadOnly ==
    [][/\ moduleMap # None => moduleMap' = moduleMap
       /\ customLabelsMap # None => customLabelsMap' = customLabelsMap
       /\ request' # NoRequest => response' = AnswerOf(request')]_vars

\* a component call was answered with an entry out of a map of two components
C26_Witness ==
    /\ request.resolver = "component"
    /\ response.answer.kind = "entry"
    /\ moduleMap # None /\ Len(moduleMap[1].map) = 2
    /\ customLabelsMap # None /\ Len(customLabelsMap[1].map) = 1

----------------------------------------------------------------------------
(* C27: component specifiers with a fragment or an extension *)

\* the specifier of the last call without the namespace 'c/'
CalledBare == SubSeq(request.specifier, 3, Len(request.specifier))

FirstIndexOf(s, c) == MinOf({i \in 1..Len(s) : s[i] = c})

\* the last call went to the component resolver for 'c/<name>#<relPath>',
\* <relPath> not empty and <name> a key of the Component Map
FragmentCall ==
    /\ request.resolver = "component"
    /\ StartsWith(request.specifier, nestedModulesNamespace)
    /\ Cardinality({i \in 1..Len(CalledBare) : CalledBare[i] = "#"}) = 1
    /\ FirstIndexOf(CalledBare, "#") < Len(CalledBare)
    /\ MapHas(ComponentMap, SubSeq(CalledBare, 1, FirstIndexOf(CalledBare, "#") - 1))

FragmentName == SubSeq(CalledBare, 1, FirstIndexOf(CalledBare, "#") - 1)
FragmentPath == SubSeq(CalledBare, FirstIndexOf(CalledBare, "#") + 1, Len(CalledBare))

\* the last call went to the component resolver for 'c/<name>.<ext>', no
\* fragment, <name> a key of the Component Map
ExtensionCall ==
    /\ request.resolver = "component"
    /\ StartsWith(request.specifier, nestedModulesNamespace)
    /\ \A i \in 1..Len(CalledBare) : CalledBare[i] # "#"
    /\ \E i \in 1..Len(CalledBare) : CalledBare[i] = "."
    /\ MapHas(ComponentMap, SubSeq(CalledBare, 1, FirstIndexOf(CalledBare, ".") - 1))

ExtensionName == SubSeq(CalledBare, 1, FirstIndexOf(CalledBare, ".") - 1)

\* for a specifier with a fragment: the entry is the directory of the part
\* before '#' joined with the fragment, whatever is on disk
FragmentEntry ==
    FragmentCall =>
        /\ response.own
        /\ response.answer.kind = "entry"
        /\ response.answer.entry = PathJoin(MapGet(ComponentMap, FragmentName)[1], FragmentPath)
        /\ response.answer.id = request.specifier \o <<"|">> \o ProviderVersion
        /\ response.answer.specifier = request.specifier

\* C27: for a specifier 'c/name#relPath' with a non-empty fragment and name in
\* the Component Map the component resolver returns the entry whose path is the
\* component directory joined with relPath and whose id is the full specifier,
\* '|' and the version; and for a specifier 'c/name.ext' without fragment, name
\* in the Component Map, it returns the entry whose path is the component
\* directory joined with 'name.ext'.
C27_FragmentOrNameAsGiven ==
    /\ FragmentEntry
    /\ ExtensionCall =>
          /\ response.own
          /\ response.answer.entry = PathJoin(MapGet(ComponentMap, ExtensionName)[1], CalledBare)
          /\ response.answer.id = request.specifier \o <<"|">> \o ProviderVersion

\* what the code does for 'c/name.ext': it looks up 'name.ext' as a whole, and
\* hands the call to the wrapped provider when that is no key of the map
ExtensionLooksUpWholeName ==
    (ExtensionCall /\ ~MapHas(ComponentMap, CalledBare)) =>
        /\ ~response.own
        /\ response.answer = baseAnswer

----------------------------------------------------------------------------
(* C28: executeSetup collects every check *)

Rejecting == {i \in 1..Len(requirements) : requirements[i].check = "rejected"}

\* C28: executeSetup starts the check of every requirement, whatever the other
\* checks do; it never rejects; and when it fulfills, its result has one test
\* per requirement, in requirement order, hasPassed exactly for the checks that
\* fulfilled, and hasMetAllRequirements exactly when no check rejected, in
\* whichever order the checks settled.
C28_SetupCollectsEveryCheck ==
    /\ setupPromise.state # "none" =>
          \A i \in 1..Len(requirements) : wrapped[i].promise # "notCalled"
    /\ setupPromise.state # "rejected"
    /\ setupPromise.state = "fulfilled" =>
          LET result == setupPromise.value[1]
          IN  /\ Len(result.tests) = Len(requirements)
              /\ \A i \in 1..Len(requirements) :
                    /\ result.tests[i].title = requirements[i].title
                    /\ result.tests[i].hasPassed <=> requirements[i].check = "fulfilled"
              /\ result.hasMetAllRequirements <=> Rejecting = {}

\* three checks, the second rejecting, settled last to first
C28_Witness ==
    /\ setupPromise.state = "fulfilled"
    /\ Len(requirements) = 3
    /\ Rejecting = {2}
    /\ settled = <<3, 2, 1>>
    /\ ~setupPromise.value[1].hasMetAllRequirements

----------------------------------------------------------------------------
(* C29: the label lookup on documents of every shape *)

LabelResolverCall == request.resolver = "label"

\* the lookup returned: a label value, or undefined
LookupReturned ==
    /\ ~LookedUp.raised
    /\ response.kind # "rejected"
    /\ \/ LookedUp.value = None
       \/ \E i \in 1..Len(LabelMap) : \E k \in 1..Len(LabelMap[i][2].labels) :
              LookedUp.value = Some(LabelMap[i][2].labels[k].value)

\* C29: for every content of the Label Map, documents without a CustomLabels
\* element, without labels, or with a single label object among them, the
\* lookup of a call to the label resolver does not raise: it returns the value
\* of a label or undefined.
C29_LookupNeverRaises == LabelResolverCall => LookupReturned

\* what does hold: the lookup returns when every document it reaches before a
\* match has labels, as a list or as a single object
LookupReturnsBehindLabels ==
    (LabelResolverCall /\ EveryDocHasLabels) => LookupReturned

----------------------------------------------------------------------------
(* C30: requests while the idle-timer callback awaits the close *)

\* the runs of startLwrServer with no configuration file and a free default
\* port: neither input reaches the idle timer
InitIdle ==
    /\ Init
    /\ fileResult = None
    /\ probes = <<"blank">>

\* a close whose promise settles does settle: the continuation of the await
\* in the timer callback runs. Nothing is assumed of the clock, the timers
\* or the requests.
SpecIdle ==
    /\ InitIdle /\ [][Next]_vars
    /\ WF_vars(\E k \in DOMAIN callbacks : CloseResolved(k))
    /\ WF_vars(\E k \in DOMAIN callbacks : CloseRejected(k))

\* the callback is waiting for a close that will settle
ClosePending(k) == callbacks[k].state = "awaiting" /\ callbacks[k].close # "never"

StatusOfClose(outcome) == IF outcome = "resolves" THEN 0 ELSE 1

\* C30: a callback of the idle timer that awaits its close is left as it is by
\* every step, a request that arms a new timer included, until a callback
\* exits the process; its own exit has the status its close determines; and
\* once a callback awaits a close that settles, the process does exit,
\* whatever requests arrive in between.
C30_RequestsCannotStopExit ==
    /\ [][\A k \in DOMAIN callbacks :
            callbacks[k].state = "awaiting" =>
                \/ callbacks'[k] = callbacks[k]
                \/ /\ callbacks'[k] = [callbacks[k] EXCEPT !.state = "exited"]
                   /\ exited'
                   /\ exitStatus' = StatusOfClose(callbacks[k].close)]_vars
    /\ (\E k \in DOMAIN callbacks : ClosePending(k)) ~> exited

\* the process has exited although a request armed a new timer after the
\* callback had started: that timer is still pending
C30_Witness ==
    /\ exited
    /\ \E k \in DOMAIN callbacks :
          /\ callbacks[k].state = "exited"
          /\ \E t \in pending : t.id > callbacks[k].timer
          /\ lastActivity >= callbacks[k].firedAt

====
